---- MODULE Spec2Model ----
(***************************************************************************)
(* A model of the in-browser tabular query engine of csv-filtering:        *)
(* the recursive filter evaluator (applyFilter), the filter builder        *)
(* (useFilter), the join engine (performJoin) as App.jsx drives it, the    *)
(* pivot engine (createPivotData), the data-quality analyzer, the          *)
(* anonymization panel, type inference, and the tables, the cleaning       *)
(* panel and the undo history of App.jsx.                                  *)
(*                                                                         *)
(* JavaScript values.  A string is a sequence of one-character strings,    *)
(* so that toLowerCase, trim, includes, split and Number() are computed    *)
(* character by character.  null and undefined are the one-element         *)
(* sequences Null and Undefined, whose element is no character of any      *)
(* string.  A row is a function from column names to values; a column      *)
(* that is not in its DOMAIN reads as Undefined, as row[col] does.         *)
(***************************************************************************)
EXTENDS Integers, Sequences, FiniteSets, TLC

VARIABLES
    \* --- a direct call of an exported function: "ready" before, "done" after
    phase,
    \* --- one evaluation of applyFilter on a condition (SpecCondition)
    row,              \* the row under evaluation
    condition,        \* the condition node {type, field, operator, value}
    isCaseSensitive,  \* App.jsx isCaseSensitive
    matched,          \* applyFilter(row, condition, isCaseSensitive)
    \* --- the filter builder (SpecFilter)
    filterTree,       \* useFilter's filterTree
    nextId,           \* the ids generateId has handed out so far
    columnTypes,      \* the types prop of FilterCondition: column -> type
    \* --- the join engine under App.jsx (SpecJoin)
    tables,           \* App.jsx tables, in insertion order: <<{name, data}>>
    activeTable,      \* App.jsx activeTable: a table name, or NoTable
    joins,            \* App.jsx joins: sequence of JoinSpec
    tableAliases,     \* App.jsx tableAliases: name -> alias
    joinedData,       \* the memo joinedData = performJoin(tables, joins, tableAliases)
    \* --- the pivot engine (SpecPivot)
    pivotInput,       \* the rows handed to createPivotData
    pivotConfig,      \* {rowField, columnField, valueField, aggFunc}
    pivotResult,      \* createPivotData(pivotInput, pivotConfig)
    \* --- the data-quality analyzer (SpecOutliers)
    outlierData,      \* the rows handed to findOutliers
    outlierResult,    \* findOutliers(outlierData, "amount")
    \* --- one anonymization of a cell value (SpecAnonymizeValue)
    anonValue,        \* the cell value handed to anonymizeValue
    anonMethod,       \* the anonymization method
    anonSmartType,    \* the column's smart type
    anonOutput,       \* <<the value for the preview, the value for the export>>
    \* --- the anonymization panel (SpecAnonymize)
    anonData,           \* AnonymizePanel's data prop: the filtered rows
    anonymizedColumns,  \* AnonymizePanel's anonymizedColumns: column -> method
    anonymizedData,     \* the rows handed to onDownload
    \* --- the environment the program runs in
    timeZoneOffset,   \* the local time zone, in minutes east of UTC
    \* --- type inference on a loaded table (SpecDetectTypes)
    typeData,         \* the rows handed to detectColumnTypes
    typeResult,       \* detectColumnTypes(typeData)
    \* --- the undo history of App.jsx (SpecHistory)
    history,          \* App.jsx history: sequence of {tableName, oldData, newData}
    historyIndex,     \* App.jsx historyIndex, -1 when nothing can be undone
    \* --- the data-quality analyzer (SpecQuality)
    qualityData,      \* the rows handed to detectDataQuality
    qualityTypes,     \* the column types handed to it
    qualityResult     \* detectDataQuality(qualityData, qualityTypes)

condVars   == <<row, condition, isCaseSensitive, matched>>
filterVars == <<filterTree, nextId, columnTypes>>
joinVars   == <<tables, activeTable, joins, tableAliases, joinedData>>
pivotVars  == <<pivotInput, pivotConfig, pivotResult>>
outlierVars == <<outlierData, outlierResult>>
anonValueVars == <<anonValue, anonMethod, anonSmartType, anonOutput>>
anonVars == <<anonData, anonymizedColumns, anonymizedData>>
envVars == <<timeZoneOffset>>
typeVars == <<typeData, typeResult>>
historyVars == <<history, historyIndex>>
qualityVars == <<qualityData, qualityTypes, qualityResult>>
vars == <<phase, row, condition, isCaseSensitive, matched, filterTree,
          nextId, columnTypes, tables, activeTable, joins, tableAliases,
          joinedData, pivotInput, pivotConfig, pivotResult, outlierData,
          outlierResult, anonValue, anonMethod, anonSmartType, anonOutput,
          anonData, anonymizedColumns, anonymizedData, timeZoneOffset,
          typeData, typeResult, history, historyIndex, qualityData,
          qualityTypes, qualityResult>>

(***************************************************************************)
(* Bounds                                                                  *)
(***************************************************************************)
\* longest string generated over Alphabet
MaxLen == 2
\* how many nodes the filter builder adds to the root group in one session
MaxNodes == 3
\* how many rows the two loaded tables hold together
MaxRows == 3
\* how many JoinSpecs the join configuration of the application holds
MaxJoins == 1
\* how many JoinSpecs a direct call of performJoin is given
MaxStages == 2
\* how many rows the table handed to createPivotData holds
MaxPivotRows == 2
\* how many rows the table handed to findOutliers holds
MaxOutlierRows == 5

(***************************************************************************)
(* JavaScript values and string primitives                                 *)
(***************************************************************************)
Null      == <<"#null">>
Undefined == <<"#undefined">>

IsNullish(v) == v = Null \/ v = Undefined
IsString(v)  == ~IsNullish(v)

\* row[col]
Get(r, col) == IF col \in DOMAIN r THEN r[col] ELSE Undefined

\* the characters strings are generated from: a letter in both cases, a
\* blank and a digit
Alphabet == {"T", "t", " ", "1"}

RECURSIVE SeqsUpTo(_, _)
SeqsUpTo(S, n) ==
    IF n = 0 THEN {<<>>}
    ELSE LET shorter == SeqsUpTo(S, n - 1)
         IN  shorter \cup {Append(s, c) : s \in {x \in shorter : Len(x) = n - 1}, c \in S}

\* strings added to the generated ones: the names of the spec's example,
\* comma-separated lists, a number with a leading zero
ExtraStrings ==
    { <<"T","o","m">>, <<"t","o","m">>, <<"T","O","M">>,
      <<"t",",","T">>, <<"T",","," ","t">>, <<"0","1">>, <<"0">> }

Strings == SeqsUpTo(Alphabet, MaxLen) \cup ExtraStrings

\* one character of String.prototype.toLowerCase
LowerChar(c) ==
    CASE c = "A" -> "a"
      [] c = "T" -> "t"
      [] c = "O" -> "o"
      [] c = "M" -> "m"
      [] OTHER   -> c

ToLowerCase(s) == [i \in 1..Len(s) |-> LowerChar(s[i])]

IsWhiteSpace(c) == c = " "

RECURSIVE TrimStart(_)
TrimStart(s) ==
    IF s # <<>> /\ IsWhiteSpace(Head(s)) THEN TrimStart(Tail(s)) ELSE s

RECURSIVE TrimEnd(_)
TrimEnd(s) ==
    IF s # <<>> /\ IsWhiteSpace(s[Len(s)]) THEN TrimEnd(SubSeq(s, 1, Len(s) - 1)) ELSE s

\* String.prototype.trim
Trim(s) == TrimEnd(TrimStart(s))

StartsWith(a, b) == Len(b) <= Len(a) /\ SubSeq(a, 1, Len(b)) = b
EndsWith(a, b)   == Len(b) <= Len(a) /\ SubSeq(a, Len(a) - Len(b) + 1, Len(a)) = b
Includes(a, b)   == \E i \in 0..(Len(a) - Len(b)) : SubSeq(a, i + 1, i + Len(b)) = b

\* s.split(','): the sequence of the pieces between the commas
RECURSIVE SplitComma(_, _)
SplitComma(s, piece) ==
    IF s = <<>> THEN <<piece>>
    ELSE IF Head(s) = "," THEN <<piece>> \o SplitComma(Tail(s), <<>>)
    ELSE SplitComma(Tail(s), Append(piece, Head(s)))

Split(s) == SplitComma(s, <<>>)

\* String(v ?? '')
StringOrEmpty(v) == IF IsNullish(v) THEN <<>> ELSE v

Digits == <<"0", "1", "2", "3", "4", "5", "6", "7", "8", "9">>

IsDigit(c) == \E d \in 1..10 : Digits[d] = c
DigitValue(c) == (CHOOSE d \in 1..10 : Digits[d] = c) - 1

RECURSIVE DecimalValue(_)
DecimalValue(s) ==
    IF s = <<>> THEN 0
    ELSE 10 * DecimalValue(SubSeq(s, 1, Len(s) - 1)) + DigitValue(s[Len(s)])

\* isNaN(Number(v)): Number(undefined) is NaN, Number(null) is 0, and a
\* string is a number when, white space stripped, it is empty (0) or a
\* decimal literal
NumberIsNaN(v) ==
    IF v = Undefined THEN TRUE
    ELSE IF v = Null THEN FALSE
    ELSE \E i \in 1..Len(Trim(v)) : ~IsDigit(Trim(v)[i])

\* Number(v), where it is not NaN
NumberOf(v) == IF IsNullish(v) THEN 0 ELSE DecimalValue(Trim(v))

(***************************************************************************)
(* Date: new Date(string) and getTime(), in seconds since the epoch.  The  *)
(* forms parsed are the ISO date YYYY-MM-DD, which is a UTC midnight, and  *)
(* the form M/D/YYYY with an optional time H:MM[:SS] and an optional AM or *)
(* PM, which is a local time; every other string is an invalid date.       *)
(***************************************************************************)
\* s.split(sep)
RECURSIVE SplitBy(_, _, _)
SplitBy(s, sep, piece) ==
    IF s = <<>> THEN <<piece>>
    ELSE IF Head(s) = sep THEN <<piece>> \o SplitBy(Tail(s), sep, <<>>)
    ELSE SplitBy(Tail(s), sep, Append(piece, Head(s)))

IsDigits(s) == s # <<>> /\ \A i \in 1..Len(s) : IsDigit(s[i])

AllDigits(parts) == \A i \in 1..Len(parts) : IsDigits(parts[i])

IsLeapYear(y) == (y % 4 = 0 /\ y % 100 # 0) \/ y % 400 = 0

\* the days of the year before month m of a common year
DaysBeforeMonth == <<0, 31, 59, 90, 120, 151, 181, 212, 243, 273, 304, 334>>

\* the days from 1970-01-01 to the given day
DaysFromEpoch(y, m, d) ==
    365 * (y - 1970) + ((y - 1969) \div 4) - ((y - 1901) \div 100) + ((y - 1601) \div 400)
        + DaysBeforeMonth[m] + (IF IsLeapYear(y) /\ m > 2 THEN 1 ELSE 0) + (d - 1)

\* the ISO form YYYY-MM-DD
IsIsoDate(s) ==
    LET parts == SplitBy(s, "-", <<>>)
    IN  /\ Len(parts) = 3
        /\ AllDigits(parts)
        /\ Len(parts[1]) = 4 /\ Len(parts[2]) = 2 /\ Len(parts[3]) = 2
        /\ DecimalValue(parts[2]) \in 1..12
        /\ DecimalValue(parts[3]) \in 1..31

\* the date part M/D/YYYY
IsSlashDate(s) ==
    LET parts == SplitBy(s, "/", <<>>)
    IN  /\ Len(parts) = 3
        /\ AllDigits(parts)
        /\ Len(parts[3]) = 4
        /\ DecimalValue(parts[1]) \in 1..12
        /\ DecimalValue(parts[2]) \in 1..31

\* the time part H:MM or H:MM:SS
IsClockTime(s) ==
    LET parts == SplitBy(s, ":", <<>>)
    IN  /\ Len(parts) \in {2, 3}
        /\ AllDigits(parts)
        /\ DecimalValue(parts[1]) \in 0..23
        /\ \A i \in 2..Len(parts) : DecimalValue(parts[i]) \in 0..59

Meridiems == { <<"A", "M">>, <<"P", "M">> }

\* the form M/D/YYYY[ H:MM[:SS][ AM|PM]]
IsLocalDateTime(s) ==
    LET parts == SplitBy(s, " ", <<>>)
    IN  /\ Len(parts) \in 1..3
        /\ IsSlashDate(parts[1])
        /\ Len(parts) >= 2 => IsClockTime(parts[2])
        /\ Len(parts) = 3 => (parts[3] \in Meridiems /\ DecimalValue(SplitBy(parts[2], ":", <<>>)[1]) \in 1..12)

\* the seconds into the day of a time part, with its AM or PM if any
SecondsOfDay(clock, meridiem) ==
    LET parts == SplitBy(clock, ":", <<>>)
        h     == DecimalValue(parts[1])
        hour  == IF meridiem = <<"A", "M">> THEN h % 12
                 ELSE IF meridiem = <<"P", "M">> THEN (h % 12) + 12
                 ELSE h
    IN  hour * 3600 + DecimalValue(parts[2]) * 60
            + (IF Len(parts) = 3 THEN DecimalValue(parts[3]) ELSE 0)

\* isNaN(new Date(v).getTime()): new Date(undefined) is invalid and
\* new Date(null) is the epoch
DateIsNaN(v) ==
    IF v = Undefined THEN TRUE
    ELSE IF v = Null THEN FALSE
    ELSE ~(IsIsoDate(v) \/ IsLocalDateTime(v))

\* new Date(v).getTime() in seconds, where it is not NaN
DateOf(v) ==
    IF v = Null THEN 0
    ELSE IF IsIsoDate(v)
    THEN LET parts == SplitBy(v, "-", <<>>)
         IN  86400 * DaysFromEpoch(DecimalValue(parts[1]), DecimalValue(parts[2]),
                                   DecimalValue(parts[3]))
    ELSE LET parts == SplitBy(v, " ", <<>>)
             day   == SplitBy(parts[1], "/", <<>>)
         IN  86400 * DaysFromEpoch(DecimalValue(day[3]), DecimalValue(day[1]),
                                   DecimalValue(day[2]))
                 + (IF Len(parts) >= 2
                    THEN SecondsOfDay(parts[2], IF Len(parts) = 3 THEN parts[3] ELSE <<>>)
                    ELSE 0)
                 - 60 * timeZoneOffset

\* the time zones the program is run in: New York (winter), UTC, Paris (winter)
TimeZoneOffsets == {-300, 0, 60}

\* the environment in the specifications that parse no date
IdleEnvironment == timeZoneOffset = 0

InitEnvironment == timeZoneOffset \in TimeZoneOffsets

(***************************************************************************)
(* FilterEvaluator: applyFilter (src/lib/utils.js)                         *)
(***************************************************************************)
\* the operator names of the source; "!=", "<=" and ">=" stand for the
\* source's one-character signs for not-equal, at-most and at-least
NumericOperators == {"=", "!=", "<", ">", "<=", ">="}
StringOperators  == {"is", "is not", "contains", "does not contain",
                     "startswith", "endswith", "in", "not in"}
EmptyOperators   == {"is empty", "is not empty"}

\* Array.prototype.every and Array.prototype.some over the children's results
Every(results) == \A i \in 1..Len(results) : results[i]
Some(results)  == \E i \in 1..Len(results) : results[i]

\* the empty check without its trim clause, as the evaluator read before
\* white space counted as blank
IsEmptyCheckUntrimmed(rowValue) ==
    \/ rowValue = <<>>
    \/ rowValue = Null
    \/ rowValue = Undefined

\* rowValue === '' || rowValue === null || rowValue === undefined ||
\* (typeof rowValue === 'string' && rowValue.trim() === '')
IsEmptyCheck(rowValue) ==
    \/ rowValue = <<>>
    \/ rowValue = Null
    \/ rowValue = Undefined
    \/ (IsString(rowValue) /\ Trim(rowValue) = <<>>)

\* rowValue !== '' && rowValue !== null && rowValue !== undefined &&
\* !(typeof rowValue === 'string' && rowValue.trim() === '')
IsNotEmptyCheck(rowValue) ==
    /\ rowValue # <<>>
    /\ rowValue # Null
    /\ rowValue # Undefined
    /\ ~(IsString(rowValue) /\ Trim(rowValue) = <<>>)

\* a fold that lower-cases whatever the flag says
CaseFoldAlways(str, caseSensitive) == ToLowerCase(str)

\* valA / valB: the string form, lower-cased unless the flag is set
CaseFold(str, caseSensitive) == IF caseSensitive THEN str ELSE ToLowerCase(str)

\* strB.split(',').map(s => s.trim()), lower-cased unless the flag is set
ListOptions(strB, caseSensitive) ==
    LET options == Split(strB)
    IN  { CaseFold(Trim(options[i]), caseSensitive) : i \in 1..Len(options) }

\* the guard of the numeric block
NumericGuard(rowValue, value) ==
    /\ ~NumberIsNaN(rowValue)
    /\ ~NumberIsNaN(value)
    /\ rowValue # <<>>
    /\ value # <<>>

NumericCompare(operator, numA, numB) ==
    CASE operator = "="  -> numA = numB
      [] operator = "!=" -> numA # numB
      [] operator = ">"  -> numA > numB
      [] operator = "<"  -> numA < numB
      [] operator = ">=" -> numA >= numB
      [] operator = "<=" -> numA <= numB

\* the guard of the date comparisons
DateGuard(rowValue, value) ==
    /\ ~DateIsNaN(rowValue)
    /\ ~DateIsNaN(value)
    /\ rowValue # <<>>
    /\ value # <<>>

\* the date operators applyFilter answers
DateOperators == {"is before", "is after"}

DateCompare(operator, dateA, dateB) ==
    IF operator = "is before" THEN dateA < dateB ELSE dateA > dateB

\* a test that takes no field for unset
FieldNeverUnset(field) == FALSE

\* !field: the condition has no field chosen yet
FieldUnset(field) == field = ""

\* the condition branch of applyFilter, for every operator but regexp
ApplyCondition(r, node, caseSensitive) ==
    LET field    == node.field
        operator == node.operator
        value    == node.value
        rowValue == Get(r, field)
        strA     == StringOrEmpty(rowValue)
        strB     == StringOrEmpty(value)
        valA     == CaseFold(strA, caseSensitive)
        valB     == CaseFold(strB, caseSensitive)
    IN  IF operator = "is empty" THEN IsEmptyCheck(rowValue)
        ELSE IF operator = "is not empty" THEN IsNotEmptyCheck(rowValue)
        ELSE IF FieldUnset(field) THEN TRUE
        ELSE IF operator = "is" THEN valA = valB
        ELSE IF operator = "is not" THEN valA # valB
        ELSE IF operator = "contains" THEN Includes(valA, valB)
        ELSE IF operator = "does not contain" THEN ~Includes(valA, valB)
        ELSE IF operator = "startswith" THEN StartsWith(valA, valB)
        ELSE IF operator = "endswith" THEN EndsWith(valA, valB)
        ELSE IF operator = "in" THEN valA \in ListOptions(strB, caseSensitive)
        ELSE IF operator = "not in" THEN valA \notin ListOptions(strB, caseSensitive)
        ELSE IF operator \in NumericOperators /\ NumericGuard(rowValue, value)
             THEN NumericCompare(operator, NumberOf(rowValue), NumberOf(value))
        ELSE IF operator \in DateOperators /\ DateGuard(rowValue, value)
             THEN DateCompare(operator, DateOf(rowValue), DateOf(value))
        ELSE FALSE

\* a group that asks every child whatever its logic says
GroupResultEvery(logic, results) == Every(results)

\* results.every / results.some of a group with children
GroupResult(logic, results) ==
    IF logic = "AND" THEN Every(results) ELSE Some(results)

RECURSIVE applyFilter(_, _, _)
applyFilter(r, filterNode, caseSensitive) ==
    IF filterNode.type = "group"
    THEN IF Len(filterNode.children) = 0 THEN TRUE
         ELSE GroupResult(filterNode.logic,
                  [i \in 1..Len(filterNode.children) |->
                      applyFilter(r, filterNode.children[i], caseSensitive)])
    ELSE IF filterNode.type = "condition"
    THEN ApplyCondition(r, filterNode, caseSensitive)
    ELSE TRUE

(***************************************************************************)
(* SpecCondition: one call of applyFilter on a condition.  The row has     *)
(* the single column "name" or no column at all; the condition's field is  *)
(* unset or "name".                                                        *)
(***************************************************************************)
Operators == EmptyOperators \cup StringOperators \cup NumericOperators
Fields    == {"", "name"}
EmptyRow  == [c \in {} |-> <<>>]
Rows      == {EmptyRow} \cup {[name |-> v] : v \in Strings \cup {Null}}

\* the condition addCondition creates (useFilter)
NewCondition(id) ==
    [id |-> id, type |-> "condition", field |-> "", operator |-> "is", value |-> <<>>]

\* the state of the evaluator in the specifications that do not call it
IdleCondition ==
    /\ row = EmptyRow
    /\ condition = NewCondition(0)
    /\ isCaseSensitive = FALSE
    /\ matched = FALSE

InitCondition ==
    /\ phase = "ready"
    /\ row \in Rows
    /\ \E f \in Fields, op \in Operators, v \in Strings :
           condition = [NewCondition(0) EXCEPT !.field = f, !.operator = op, !.value = v]
    /\ isCaseSensitive \in BOOLEAN
    /\ matched = FALSE

\* applyFilter(row, condition, isCaseSensitive)
EvaluateCondition ==
    /\ phase = "ready"
    /\ phase' = "done"
    /\ matched' = applyFilter(row, condition, isCaseSensitive)
    /\ UNCHANGED <<row, condition, isCaseSensitive>>

(***************************************************************************)
(* The filter builder: useFilter (hooks/useFilter.js) driven by            *)
(* FilterGroup and FilterCondition                                         *)
(***************************************************************************)
NewGroup(id) ==
    [id |-> id, type |-> "group", logic |-> "AND", children |-> <<>>]

HasChildren(node) == "children" \in DOMAIN node

\* { ...root, ...updates }
Spread(root, updates) ==
    [k \in DOMAIN root \cup DOMAIN updates |->
        IF k \in DOMAIN updates THEN updates[k] ELSE root[k]]

RECURSIVE insertNode(_, _, _)
insertNode(root, parentId, newNode) ==
    IF root.id = parentId /\ root.type = "group"
    THEN [root EXCEPT !.children = Append(root.children, newNode)]
    ELSE IF HasChildren(root)
    THEN [root EXCEPT !.children =
             [i \in 1..Len(root.children) |-> insertNode(root.children[i], parentId, newNode)]]
    ELSE root

\* children.filter(child => child.id !== nodeId)
RECURSIVE FilterOutId(_, _)
FilterOutId(children, nodeId) ==
    IF children = <<>> THEN <<>>
    ELSE IF Head(children).id # nodeId
         THEN <<Head(children)>> \o FilterOutId(Tail(children), nodeId)
         ELSE FilterOutId(Tail(children), nodeId)

\* a deleteNode that empties the node of the given id when it meets it
RECURSIVE deleteNodeAndEmpty(_, _)
deleteNodeAndEmpty(root, nodeId) ==
    IF HasChildren(root)
    THEN LET kept == IF root.id = nodeId THEN <<>> ELSE FilterOutId(root.children, nodeId)
         IN  [root EXCEPT !.children = [i \in 1..Len(kept) |-> deleteNodeAndEmpty(kept[i], nodeId)]]
    ELSE root

RECURSIVE deleteNode(_, _)
deleteNode(root, nodeId) ==
    IF HasChildren(root)
    THEN LET kept == FilterOutId(root.children, nodeId)
         IN  [root EXCEPT !.children = [i \in 1..Len(kept) |-> deleteNode(kept[i], nodeId)]]
    ELSE root

RECURSIVE modifyNode(_, _, _)
modifyNode(root, nodeId, updates) ==
    IF root.id = nodeId
    THEN Spread(root, updates)
    ELSE IF HasChildren(root)
    THEN [root EXCEPT !.children =
             [i \in 1..Len(root.children) |-> modifyNode(root.children[i], nodeId, updates)]]
    ELSE root

\* every node of a tree, the root included
RECURSIVE Nodes(_)
Nodes(node) ==
    {node} \cup
    (IF HasChildren(node)
     THEN UNION {Nodes(node.children[i]) : i \in 1..Len(node.children)}
     ELSE {})

GroupsOf(tree)     == {n \in Nodes(tree) : n.type = "group"}
ConditionsOf(tree) == {n \in Nodes(tree) : n.type = "condition"}

\* the table the filter is built over: its inferred types, and those of a
\* table that has a numeric column too
FilterTypes == [name |-> "string"]
PeopleTypes == [name |-> "string", age |-> "number"]

\* the columns the field selector offers
FilterColumns == DOMAIN columnTypes
FilterRows ==
    { [name |-> <<"t","o","m">>], [name |-> <<"T","o","m">>], [name |-> <<>>] }

\* OPERATORS_BY_TYPE (FilterCondition.jsx), in the order of the source,
\* without regexp and the date operators
OperatorsByType(type) ==
    IF type = "number"
    THEN <<"=", "!=", "<", ">", "<=", ">=", "is empty", "is not empty">>
    ELSE <<"is", "is not", "contains", "does not contain", "startswith",
           "endswith", "in", "not in", "is empty", "is not empty">>

\* types[field] || 'string'
FieldType(field) == IF field \in DOMAIN columnTypes THEN columnTypes[field] ELSE "string"

\* the operators and values the session picks among
SessionOperators == {"is", "is empty"}
SessionValues    == { <<"t","o","m">> }

InitFilter ==
    /\ filterTree = NewGroup(0)
    /\ nextId = 1
    /\ columnTypes = FilterTypes

\* addCondition(parentId), from the button of a rendered group
AddCondition ==
    \E g \in GroupsOf(filterTree) :
        /\ nextId <= MaxNodes
        /\ filterTree' = insertNode(filterTree, g.id, NewCondition(nextId))
        /\ nextId' = nextId + 1
        /\ UNCHANGED columnTypes

\* addGroup(parentId), from the button of a rendered group
AddGroup ==
    \E g \in GroupsOf(filterTree) :
        /\ nextId <= MaxNodes
        /\ filterTree' = insertNode(filterTree, g.id, NewGroup(nextId))
        /\ nextId' = nextId + 1
        /\ UNCHANGED columnTypes

\* removeNode(id): the button of a condition or of a group that is not the root
RemoveNode ==
    \E n \in Nodes(filterTree) \ {filterTree} :
        /\ filterTree' = deleteNode(filterTree, n.id)
        /\ UNCHANGED <<nextId, columnTypes>>

\* updateNode(id, {logic}) from the AND / OR toggle of a group
SetLogic ==
    \E g \in GroupsOf(filterTree), logic \in {"AND", "OR"} :
        /\ filterTree' = modifyNode(filterTree, g.id, [logic |-> logic])
        /\ UNCHANGED <<nextId, columnTypes>>

\* the field selector: updateNode(id, {field, operator: operators[0], value: ''}),
\* operators being those of the type of the field shown before the change
SelectField ==
    \E c \in ConditionsOf(filterTree), f \in FilterColumns :
        /\ filterTree' = modifyNode(filterTree, c.id,
               [field |-> f, operator |-> OperatorsByType(FieldType(c.field))[1], value |-> <<>>])
        /\ UNCHANGED <<nextId, columnTypes>>

\* the operator selector: updateNode(id, {operator})
SelectOperator ==
    \E c \in ConditionsOf(filterTree) :
        \E i \in 1..Len(OperatorsByType(FieldType(c.field))) :
            /\ OperatorsByType(FieldType(c.field))[i] \in SessionOperators
            /\ filterTree' = modifyNode(filterTree, c.id,
                   [operator |-> OperatorsByType(FieldType(c.field))[i]])
            /\ UNCHANGED <<nextId, columnTypes>>

\* the value input, shown unless the operator is one of the empty checks:
\* updateNode(id, {value})
EditValue ==
    \E c \in ConditionsOf(filterTree), v \in SessionValues :
        /\ c.operator \notin EmptyOperators
        /\ filterTree' = modifyNode(filterTree, c.id, [value |-> v])
        /\ UNCHANGED <<nextId, columnTypes>>

\* removeNode(id) with the id of the root: a call the hook allows and no
\* button issues
RemoveRoot ==
    /\ filterTree' = deleteNode(filterTree, filterTree.id)
    /\ UNCHANGED <<nextId, columnTypes>>

\* the id 'root' of the tree handleClearAll sets, which generateId does not
\* hand out
RootLiteralId == -1

\* the setFilterTree of handleClearAll (App.jsx): setFilterTree({id: 'root',
\* type: 'group', logic: 'AND', children: []}); in the session of the
\* filter builder the tables, joins and aliases it empties are empty
ClearAll ==
    /\ filterTree' = [id |-> RootLiteralId, type |-> "group", logic |-> "AND", children |-> <<>>]
    /\ UNCHANGED <<nextId, columnTypes>>

FilterFrame ==
    UNCHANGED <<phase, condVars, joinVars, pivotVars, outlierVars, anonValueVars, anonVars, envVars, typeVars, historyVars, qualityVars>>

NextFilter ==
    \/ AddCondition /\ FilterFrame
    \/ AddGroup /\ FilterFrame
    \/ RemoveNode /\ FilterFrame
    \/ SetLogic /\ FilterFrame
    \/ SelectField /\ FilterFrame
    \/ SelectOperator /\ FilterFrame
    \/ EditValue /\ FilterFrame
    \/ RemoveRoot /\ FilterFrame
    \/ ClearAll /\ FilterFrame

\* filteredData (App.jsx): the rows applyFilter keeps
FilteredData(rows, tree, caseSensitive) ==
    {r \in rows : applyFilter(r, tree, caseSensitive)}

(***************************************************************************)
(* JoinEngine: performJoin (src/lib/utils.js)                              *)
(*                                                                         *)
(* The tables map is a sequence of {name, data} entries in insertion       *)
(* order (the order of Object.keys).  A column key of a combined row,      *)
(* `${table}.${col}`, is the pair <<table, col>>: table names hold no dot  *)
(* (FileUpload replaces every character outside [a-zA-Z0-9_]), so the      *)
(* string splits at its first dot in one way only.  An unprefixed key      *)
(* col is the pair <<"", col>>.                                            *)
(***************************************************************************)
NoTable == ""

TableNames(tbls) == {tbls[i].name : i \in 1..Len(tbls)}

HasTable(tbls, name) == name \in TableNames(tbls)

\* tables[name].data, for a name of the map
DataOf(tbls, name) == tbls[CHOOSE i \in 1..Len(tbls) : tbls[i].name = name].data

\* the names every object literal {} inherits from Object.prototype and that
\* survive toLowerCase: index[key] is a truthy non-array for them
ProtoKey       == <<"_","_","p","r","o","t","o","_","_">>
ConstructorKey == <<"c","o","n","s","t","r","u","c","t","o","r">>
InheritedKeys  == {ProtoKey, ConstructorKey}

\* String(row[col] ?? '').toLowerCase()
JoinKey(r, col) == ToLowerCase(StringOrEmpty(Get(r, col)))

\* index[key] || [], for an index built over data on column col: the rows
\* of data whose key is key, in order
Lookup(data, col, key) == SelectSeq(data, LAMBDA r : JoinKey(r, col) = key)

\* building the index raises a TypeError (push is no function of index[key])
\* when a row's key is an inherited name
IndexRaises(data, col) == \E i \in 1..Len(data) : JoinKey(data[i], col) \in InheritedKeys

\* probing the index raises a TypeError (forEach is no function of
\* index[key]) when the probing key is an inherited name
ProbeRaises(key) == key \in InheritedKeys

\* the column keys `${prefix}.${col}` of a row's columns
Prefixed(prefix, r) == {<<prefix, c>> : c \in DOMAIN r}

\* combinedRow of the first stage: the left row's entries under the left
\* table's name, then the right row's under the right table's name (a later
\* assignment to the same key wins)
CombineFirst(leftName, leftRow, rightName, rightRow) ==
    [k \in Prefixed(leftName, leftRow) \cup Prefixed(rightName, rightRow) |->
        IF k \in Prefixed(rightName, rightRow) THEN rightRow[k[2]] ELSE leftRow[k[2]]]

\* combinedRow of a later stage: { ...resultRow } and the next row's entries
CombineNext(resultRow, rightName, nextRow) ==
    [k \in DOMAIN resultRow \cup Prefixed(rightName, nextRow) |->
        IF k \in Prefixed(rightName, nextRow) THEN nextRow[k[2]] ELSE resultRow[k]]

\* the leftData.forEach loop of the first stage
RECURSIVE FirstStage(_, _, _)
FirstStage(leftData, rightData, join) ==
    IF leftData = <<>> THEN <<>>
    ELSE LET leftRow  == Head(leftData)
             matching == Lookup(rightData, join.rightColumn, JoinKey(leftRow, join.leftColumn))
         IN  [i \in 1..Len(matching) |->
                 CombineFirst(join.leftTable, leftRow, join.rightTable, matching[i])]
             \o FirstStage(Tail(leftData), rightData, join)

\* leftColName of a later stage (no modelled column name holds a dot)
LeftColName(join) == <<join.leftTable, join.leftColumn>>

\* resultRow[leftColName] of a combined row
GetKey(resultRow, k) == IF k \in DOMAIN resultRow THEN resultRow[k] ELSE Undefined

ResultKey(resultRow, join) ==
    ToLowerCase(StringOrEmpty(GetKey(resultRow, LeftColName(join))))

\* the result.forEach loop of a later stage
RECURSIVE NextStage(_, _, _)
NextStage(result, nextData, join) ==
    IF result = <<>> THEN <<>>
    ELSE LET resultRow == Head(result)
             matching  == Lookup(nextData, join.rightColumn, ResultKey(resultRow, join))
         IN  [i \in 1..Len(matching) |-> CombineNext(resultRow, join.rightTable, matching[i])]
             \o NextStage(Tail(result), nextData, join)

\* the loop over joins[1..]: acc is {raised, data}; a stage whose right
\* table is missing is skipped (continue)
RECURSIVE LaterStages(_, _, _, _)
LaterStages(tbls, js, i, acc) ==
    IF i > Len(js) \/ acc.raised THEN acc
    ELSE IF ~HasTable(tbls, js[i].rightTable) THEN LaterStages(tbls, js, i + 1, acc)
    ELSE LET nextData == DataOf(tbls, js[i].rightTable)
             raises   == \/ IndexRaises(nextData, js[i].rightColumn)
                         \/ \E n \in 1..Len(acc.data) : ProbeRaises(ResultKey(acc.data[n], js[i]))
         IN  IF raises THEN [raised |-> TRUE, data |-> <<>>]
             ELSE LaterStages(tbls, js, i + 1,
                      [raised |-> FALSE, data |-> NextStage(acc.data, nextData, js[i])])

\* { data: [], types: {}, columns: [] }
EmptyJoin == [raised |-> FALSE, data |-> <<>>, columns |-> {}]

\* what a call that raised leaves behind: no value
RaisedJoin == [raised |-> TRUE, data |-> <<>>, columns |-> {}]

\* performJoin(tables, joins): {data, columns}, and whether the call raised
\* instead of returning (the types of the result are not modelled)
performJoin(tbls, js) ==
    IF Len(js) = 0 \/ Cardinality(TableNames(tbls)) < 2 THEN EmptyJoin
    ELSE IF ~HasTable(tbls, js[1].leftTable) \/ ~HasTable(tbls, js[1].rightTable) THEN EmptyJoin
    ELSE LET firstJoin == js[1]
             leftData  == DataOf(tbls, firstJoin.leftTable)
             rightData == DataOf(tbls, firstJoin.rightTable)
             raises    == \/ IndexRaises(rightData, firstJoin.rightColumn)
                          \/ \E n \in 1..Len(leftData) :
                                 ProbeRaises(JoinKey(leftData[n], firstJoin.leftColumn))
             final     == LaterStages(tbls, js, 2,
                              [raised |-> FALSE, data |-> FirstStage(leftData, rightData, firstJoin)])
         IN  IF raises \/ final.raised THEN RaisedJoin
             ELSE [raised  |-> FALSE,
                   data    |-> final.data,
                   columns |-> IF Len(final.data) > 0 THEN DOMAIN final.data[1] ELSE {}]

(***************************************************************************)
(* SpecJoin: the tables, the join configuration and the joinedData memo    *)
(* of App.jsx, driven by TableManager and JoinConfig.  The session starts  *)
(* with guests.csv and attendance.csv loaded, in this order.               *)
(***************************************************************************)
\* the length of a table's name (the file name without its extension)
NameLength(name) ==
    CASE name = "attendance" -> 10
      [] name = "inventory"  -> 9
      [] OTHER               -> 6

\* baseName.length <= 6
AliasMaxLength == 6

\* the rows of the loaded files: a join column id, or no column at all
JoinValues == { <<"a">>, <<"A">>, <<>>, ProtoKey }
JoinRows   == {[id |-> v] : v \in JoinValues} \cup {EmptyRow}
JoinTypes  == {"inner", "left"}

\* { ...prev, [tableName]: {data} }: an existing name keeps its place
PutTable(tbls, name, data) ==
    IF HasTable(tbls, name)
    THEN [i \in 1..Len(tbls) |->
             IF tbls[i].name = name THEN [name |-> name, data |-> data] ELSE tbls[i]]
    ELSE Append(tbls, [name |-> name, data |-> data])

\* delete newTables[tableName]
DeleteTable(tbls, name) == SelectSeq(tbls, LAMBDA t : t.name # name)

\* the alias handleDataLoaded gives a table that has none
DefaultAlias(aliases, name) ==
    IF NameLength(name) <= AliasMaxLength
    THEN name
    ELSE "t" \o ToString(Cardinality(DOMAIN aliases) + 1)

\* the setTableAliases updater of handleDataLoaded
AliasesAfterLoad(aliases, name) ==
    IF name \in DOMAIN aliases THEN aliases
    ELSE [n \in DOMAIN aliases \cup {name} |->
             IF n = name THEN DefaultAlias(aliases, name) ELSE aliases[n]]

NoAliases == [n \in {} |-> ""]

\* tableAliases[tableName] || tableName
AliasOf(aliases, name) == IF name \in DOMAIN aliases THEN aliases[name] ELSE name

\* a table's rows as joinedData shows them when no join runs: the keys
\* are the column names, unprefixed
Unprefixed(r) == [k \in Prefixed("", r) |-> r[k[2]]]

\* the joinedData memo
JoinedDataMemo(tbls, active, js) ==
    IF Len(tbls) = 0 THEN EmptyJoin
    ELSE IF Len(js) > 0 /\ Len(tbls) >= 2 THEN performJoin(tbls, js)
    ELSE IF active # NoTable /\ HasTable(tbls, active)
    THEN LET data == DataOf(tbls, active)
         IN  [raised  |-> FALSE,
              data    |-> [i \in 1..Len(data) |-> Unprefixed(data[i])],
              columns |-> IF Len(data) > 0 THEN Prefixed("", data[1]) ELSE {}]
    ELSE EmptyJoin

\* allColumnsWithTables: the {table, fullName} the filter builder offers
\* while joins are configured
AllColumnsWithTables(tbls, aliases) ==
    UNION { {[table |-> tbls[i].name, fullName |-> k] :
                 k \in Prefixed(AliasOf(aliases, tbls[i].name), tbls[i].data[1])} :
            i \in {n \in 1..Len(tbls) : Len(tbls[n].data) > 0} }

\* getColumnsForTable (JoinConfig)
ColumnsForTable(tbls, name) ==
    IF name = "" \/ ~HasTable(tbls, name) \/ Len(DataOf(tbls, name)) = 0 THEN {}
    ELSE DOMAIN DataOf(tbls, name)[1]

\* the state of the join engine in the specifications that do not use it
IdleJoin ==
    /\ tables = <<>>
    /\ activeTable = NoTable
    /\ joins = <<>>
    /\ tableAliases = NoAliases
    /\ joinedData = EmptyJoin

\* handleDataLoaded(guestsData, "guests") then handleDataLoaded(attendanceData,
\* "attendance") from the initial state of App.jsx: FileUpload hands over
\* parsed files of at least one row
InitJoin ==
    /\ \E guestsData \in SeqsUpTo(JoinRows, MaxRows) \ {<<>>},
          attendanceData \in SeqsUpTo(JoinRows, MaxRows) \ {<<>>} :
           /\ Len(guestsData) + Len(attendanceData) <= MaxRows
           /\ tables = PutTable(PutTable(<<>>, "guests", guestsData),
                                "attendance", attendanceData)
    /\ tableAliases = AliasesAfterLoad(AliasesAfterLoad(NoAliases, "guests"), "attendance")
    /\ activeTable = "guests"
    /\ joins = <<>>
    /\ joinedData = JoinedDataMemo(tables, activeTable, joins)

\* an exception in the memo unmounts the application
Running == ~joinedData.raised

\* a filter that keeps the joins whose right table is the removed one
JoinsAfterRemoveLeftOnly(js, name) == SelectSeq(js, LAMBDA j : j.leftTable # name)

\* prev.filter(j => j.leftTable !== tableName && j.rightTable !== tableName)
JoinsAfterRemove(js, name) ==
    SelectSeq(js, LAMBDA j : j.leftTable # name /\ j.rightTable # name)

\* handleRemoveTable(tableName), from the button TableManager shows while
\* more than one table is loaded
RemoveTable ==
    \E name \in TableNames(tables) :
        /\ Running
        /\ Len(tables) > 1
        /\ tables' = DeleteTable(tables, name)
        /\ tableAliases' = [n \in DOMAIN tableAliases \ {name} |-> tableAliases[n]]
        /\ activeTable' = IF activeTable = name
                          THEN (IF Len(tables') > 0 THEN tables'[1].name ELSE NoTable)
                          ELSE activeTable
        /\ joins' = JoinsAfterRemove(joins, name)
        /\ joinedData' = JoinedDataMemo(tables', activeTable', joins')

\* handleAddJoin (JoinConfig, opened from the button TableManager shows
\* while two tables or more are loaded)
AddJoin ==
    \E lt \in TableNames(tables), rt \in TableNames(tables), jt \in JoinTypes :
        \E lc \in ColumnsForTable(tables, lt), rc \in ColumnsForTable(tables, rt) :
            /\ Running
            /\ Len(tables) >= 2
            /\ Len(joins) < MaxJoins
            /\ joins' = Append(joins, [leftTable |-> lt, leftColumn |-> lc,
                                       rightTable |-> rt, rightColumn |-> rc,
                                       joinType |-> jt])
            /\ UNCHANGED <<tables, tableAliases, activeTable>>
            /\ joinedData' = JoinedDataMemo(tables', activeTable', joins')

\* handleRemoveJoin(index)
RemoveJoin ==
    \E index \in 1..Len(joins) :
        /\ Running
        /\ joins' = [i \in 1..(Len(joins) - 1) |-> IF i < index THEN joins[i] ELSE joins[i + 1]]
        /\ UNCHANGED <<tables, tableAliases, activeTable>>
        /\ joinedData' = JoinedDataMemo(tables', activeTable', joins')

JoinFrame ==
    UNCHANGED <<phase, condVars, filterVars, pivotVars, outlierVars, anonValueVars, anonVars, envVars, typeVars, historyVars, qualityVars>>

NextJoin ==
    \/ RemoveTable /\ JoinFrame
    \/ AddJoin /\ JoinFrame
    \/ RemoveJoin /\ JoinFrame

(***************************************************************************)
(* SpecJoinCall: one direct call of performJoin, the tables map holding    *)
(* any of three tables and the join list naming any of them                *)
(***************************************************************************)
CallNames == <<"guests", "attendance", "orders">>
CallData ==
    { <<[id |-> <<"a">>]>>, <<[id |-> <<"A">>], [id |-> <<>>]>> }
CallJoinSpecs ==
    { [leftTable |-> CallNames[l], leftColumn |-> "id",
       rightTable |-> CallNames[r], rightColumn |-> "id", joinType |-> "inner"] :
          l \in 1..Len(CallNames), r \in 1..Len(CallNames) }

\* the tables maps: each name left out or loaded, in the order of CallNames
RECURSIVE CallTables(_)
CallTables(i) ==
    IF i > Len(CallNames) THEN {<<>>}
    ELSE LET rest == CallTables(i + 1)
         IN  rest \cup {<<[name |-> CallNames[i], data |-> d]>> \o t : d \in CallData, t \in rest}

InitJoinCall ==
    /\ phase = "ready"
    /\ tables \in CallTables(1)
    /\ joins \in SeqsUpTo(CallJoinSpecs, MaxStages)
    /\ activeTable = NoTable
    /\ tableAliases = NoAliases
    /\ joinedData = EmptyJoin

\* performJoin(tables, joins)
CallPerformJoin ==
    /\ phase = "ready"
    /\ phase' = "done"
    /\ joinedData' = performJoin(tables, joins)
    /\ UNCHANGED <<tables, joins, activeTable, tableAliases>>

(***************************************************************************)
(* PivotEngine: createPivotData (lib/utils.js).  Numbers are held in       *)
(* thousandths, so that Math.round(x * 100) / 100 is computed on exact     *)
(* decimals; the binary rounding of floating point is not modelled.        *)
(***************************************************************************)
DecimalDigits == {"0", "1", "2", "3", "4", "5", "6", "7", "8", "9"}

DecimalDigitValue(c) ==
    CASE c = "0" -> 0 [] c = "1" -> 1 [] c = "2" -> 2 [] c = "3" -> 3 [] c = "4" -> 4
      [] c = "5" -> 5 [] c = "6" -> 6 [] c = "7" -> 7 [] c = "8" -> 8 [] c = "9" -> 9

RECURSIVE DigitsValue(_)
DigitsValue(s) ==
    IF s = <<>> THEN 0
    ELSE 10 * DigitsValue(SubSeq(s, 1, Len(s) - 1)) + DecimalDigitValue(s[Len(s)])

\* the place of the first "." of a string, or 0
DotIndex(s) ==
    IF \E i \in 1..Len(s) : s[i] = "."
    THEN CHOOSE i \in 1..Len(s) : s[i] = "." /\ \A k \in 1..(i - 1) : s[k] # "."
    ELSE 0

IntegerPart(s)  == IF DotIndex(s) = 0 THEN s ELSE SubSeq(s, 1, DotIndex(s) - 1)
FractionPart(s) == IF DotIndex(s) = 0 THEN <<>> ELSE SubSeq(s, DotIndex(s) + 1, Len(s))

\* isNaN(Number(v)) of a string: white space stripped, it is empty or an
\* unsigned decimal literal with a digit in it
PivotIsNaN(v) ==
    LET s == Trim(v)
    IN  /\ s # <<>>
        /\ \/ \E i \in 1..Len(IntegerPart(s)) : IntegerPart(s)[i] \notin DecimalDigits
           \/ \E i \in 1..Len(FractionPart(s)) : FractionPart(s)[i] \notin DecimalDigits
           \/ IntegerPart(s) \o FractionPart(s) = <<>>

\* Number(v) in thousandths, for a literal of at most three decimals
PivotNumber(v) ==
    LET s    == Trim(v)
        frac == FractionPart(s) \o <<"0", "0", "0">>
    IN  1000 * DigitsValue(IntegerPart(s)) + DigitsValue(SubSeq(frac, 1, 3))

\* Math.round(x * 100) / 100 of x = n / d thousandths, d > 0: to the
\* nearest hundredth, a half going up
Round2(n, d) == ((2 * n + 10 * d) \div (20 * d)) * 10

Sum(values) ==
    LET RECURSIVE Reduce(_)
        Reduce(vs) == IF vs = <<>> THEN 0 ELSE Head(vs) + Reduce(Tail(vs))
    IN  Reduce(values)

Range(values) == {values[i] : i \in 1..Len(values)}
Min(S) == CHOOSE m \in S : \A x \in S : m <= x
Max(S) == CHOOSE m \in S : \A x \in S : x <= m

AggregationNames == {"sum", "avg", "count", "min", "max", "countDistinct"}

\* Math.round(AGGREGATION_FUNCTIONS[name](values) * 100) / 100, for a
\* name of AggregationNames
Aggregate(name, values) ==
    CASE name = "sum"   -> Round2(Sum(values), 1)
      [] name = "avg"   -> IF Len(values) > 0 THEN Round2(Sum(values), Len(values)) ELSE 0
      [] name = "count" -> 1000 * Len(values)
      [] name = "min"   -> IF Len(values) > 0 THEN Round2(Min(Range(values)), 1) ELSE 0
      [] name = "max"   -> IF Len(values) > 0 THEN Round2(Max(Range(values)), 1) ELSE 0
      [] name = "countDistinct" -> 1000 * Cardinality(Range(values))

\* AGGREGATION_FUNCTIONS[aggFunc] || AGGREGATION_FUNCTIONS.sum, for a name that
\* Object.prototype does not define
Aggregator(aggFunc) == IF aggFunc \in AggregationNames THEN aggFunc ELSE "sum"

EmptyLabel == <<"(", "E", "m", "p", "t", "y", ")">>
TotalLabel == <<"T", "o", "t", "a", "l">>

\* row[field] ?? '(Empty)'
LabelOf(r, field) == IF IsNullish(Get(r, field)) THEN EmptyLabel ELSE Get(r, field)

\* the characters of the modelled labels, in the order of their code units
CodeOrder ==
    <<" ", "(", ")", ",", ".", "0", "1", "2", "3", "4", "5", "6", "7", "8", "9",
      "A", "E", "M", "O", "T", "_", "a", "e", "l", "m", "n", "o", "p", "r", "s",
      "t", "x", "y">>

CharCode(c) == CHOOSE i \in 1..Len(CodeOrder) : CodeOrder[i] = c

\* a < b as Array.prototype.sort compares strings
RECURSIVE StringLess(_, _)
StringLess(a, b) ==
    IF b = <<>> THEN FALSE
    ELSE IF a = <<>> THEN TRUE
    ELSE IF Head(a) = Head(b) THEN StringLess(Tail(a), Tail(b))
    ELSE CharCode(Head(a)) < CharCode(Head(b))

\* [...new Set(labels)].sort()
RECURSIVE Sorted(_)
Sorted(S) ==
    IF S = {} THEN <<>>
    ELSE LET least == CHOOSE a \in S : \A b \in S \ {a} : StringLess(a, b)
         IN  <<least>> \o Sorted(S \ {least})

\* the values of a cell: the rows of the cell mapped to their value (1
\* without a valueField), blanks dropped, non-numbers counted as 0
RECURSIVE CellValues(_, _, _, _, _)
CellValues(data, config, rowVal, colVal, i) ==
    IF i > Len(data) THEN <<>>
    ELSE LET r        == data[i]
             matchRow == LabelOf(r, config.rowField) = rowVal
             matchCol == config.columnField = "" \/ LabelOf(r, config.columnField) = colVal
             v        == Get(r, config.valueField)
             rest     == CellValues(data, config, rowVal, colVal, i + 1)
         IN  IF ~(matchRow /\ matchCol) THEN rest
             ELSE IF config.valueField = "" THEN <<1000>> \o rest
             ELSE IF IsNullish(v) \/ v = <<>> THEN rest
             ELSE IF PivotIsNaN(v) THEN <<0>> \o rest
             ELSE <<PivotNumber(v)>> \o rest

\* pivotData[rowVal][colVal]
Cell(data, config, rowVal, colVal) ==
    LET values == CellValues(data, config, rowVal, colVal, 1)
    IN  IF Len(values) > 0 THEN Aggregate(Aggregator(config.aggFunc), values) ELSE 0

\* the keys an assignment obj[key] = number gives an object literal:
\* assigning a number to __proto__ sets nothing
OwnKeys(labels) == Range(labels) \ {ProtoKey}

SumOver(S, f) ==
    LET RECURSIVE Add(_)
        Add(T) == IF T = {} THEN 0
                  ELSE LET k == CHOOSE k \in T : TRUE IN f[k] + Add(T \ {k})
    IN  Add(S)

\* { rows: [], columns: [], pivotData: {}, totals: {} }: totals has no key
EmptyPivot ==
    [rows |-> <<>>, columns |-> <<>>, pivotData |-> <<>>, totals |-> <<>>]

\* createPivotData(data, config)
createPivotData(data, config) ==
    IF config.rowField = "" \/ Len(data) = 0 THEN EmptyPivot
    ELSE LET uniqueRows == Sorted({LabelOf(data[i], config.rowField) : i \in 1..Len(data)})
             uniqueCols == IF config.columnField # ""
                           THEN Sorted({LabelOf(data[i], config.columnField) : i \in 1..Len(data)})
                           ELSE <<TotalLabel>>
             cells      == [rowVal \in Range(uniqueRows) |->
                               [colVal \in OwnKeys(uniqueCols) |->
                                   Cell(data, config, rowVal, colVal)]]
             rowTotals  == [rowVal \in OwnKeys(uniqueRows) |->
                               Round2(SumOver(OwnKeys(uniqueCols), cells[rowVal]), 1)]
             colTotals  == [colVal \in OwnKeys(uniqueCols) |->
                               Round2(SumOver(Range(uniqueRows),
                                          [rowVal \in Range(uniqueRows) |-> cells[rowVal][colVal]]), 1)]
         IN  [rows      |-> uniqueRows,
              columns   |-> uniqueCols,
              pivotData |-> cells,
              totals    |-> [row    |-> rowTotals,
                             column |-> colTotals,
                             grand  |-> Round2(SumOver(OwnKeys(uniqueRows), rowTotals), 1)]]

(***************************************************************************)
(* SpecPivot: one call of createPivotData on a table of the columns        *)
(* region, kind and amount                                                 *)
(***************************************************************************)
PivotRegions == { <<"n">>, ProtoKey }
PivotKinds   == { <<"x">>, <<"y">> }
PivotAmounts == { <<"1">>, <<"0", ".", "0", "0", "4">>, <<>>, <<"x">> }

\* the rows of the table: a row may come without its region
PivotRows ==
    {[region |-> r, kind |-> k, amount |-> a] :
         r \in PivotRegions, k \in PivotKinds, a \in PivotAmounts}
    \cup {[kind |-> k, amount |-> a] : k \in PivotKinds, a \in PivotAmounts}

PivotRowFields    == {"region", "kind"}
PivotColumnFields == {"", "region", "kind"}
PivotValueFields  == {"", "amount"}
PivotAggFuncs     == AggregationNames \cup {"median"}

PivotConfigs ==
    [rowField : PivotRowFields, columnField : PivotColumnFields,
     valueField : PivotValueFields, aggFunc : PivotAggFuncs]

\* the state of the pivot engine in the specifications that do not call it
IdlePivot ==
    /\ pivotInput = <<>>
    /\ pivotConfig = [rowField |-> "", columnField |-> "", valueField |-> "", aggFunc |-> "sum"]
    /\ pivotResult = EmptyPivot

InitPivot ==
    /\ phase = "ready"
    /\ pivotInput \in SeqsUpTo(PivotRows, MaxPivotRows)
    /\ pivotConfig \in PivotConfigs
    /\ pivotResult = EmptyPivot

\* createPivotData(data, config)
CallCreatePivotData ==
    /\ phase = "ready"
    /\ phase' = "done"
    /\ pivotResult' = createPivotData(pivotInput, pivotConfig)
    /\ UNCHANGED <<pivotInput, pivotConfig>>

(***************************************************************************)
(* DataQualityAnalyzer: findOutliers (lib/utils.js), numbers in            *)
(* thousandths                                                             *)
(***************************************************************************)
\* data.map(...).filter(...).map(...): the {value, index} of the rows whose
\* value is not null, undefined or '' and is a number, index counting from 0
RECURSIVE NumericItems(_, _, _)
NumericItems(data, column, i) ==
    IF i > Len(data) THEN <<>>
    ELSE LET v    == Get(data[i], column)
             rest == NumericItems(data, column, i + 1)
         IN  IF IsNullish(v) \/ v = <<>> \/ PivotIsNaN(v) THEN rest
             ELSE <<[value |-> PivotNumber(v), index |-> i - 1]>> \o rest

\* one item put into a sequence sorted by value, behind the items that
\* compare equal to it
RECURSIVE InsertByValue(_, _)
InsertByValue(sorted, item) ==
    IF sorted = <<>> THEN <<item>>
    ELSE IF item.value < Head(sorted).value THEN <<item>> \o sorted
    ELSE <<Head(sorted)>> \o InsertByValue(Tail(sorted), item)

\* [...values].sort((a, b) => a.value - b.value)
RECURSIVE SortByValue(_)
SortByValue(items) ==
    IF items = <<>> THEN <<>>
    ELSE InsertByValue(SortByValue(SubSeq(items, 1, Len(items) - 1)), items[Len(items)])

\* { outlierIndices: [], outlierCount: 0, bounds: null }
NoOutliers == [outlierIndices |-> <<>>, outlierCount |-> 0, bounds |-> Null]

\* findOutliers(data, column); twice the bounds are whole thousandths
findOutliers(data, column) ==
    LET values == NumericItems(data, column, 1)
    IN  IF Len(values) < 4 THEN NoOutliers
        ELSE LET sorted  == SortByValue(values)
                 q1Index == Len(sorted) \div 4
                 q3Index == (3 * Len(sorted)) \div 4
                 q1      == sorted[q1Index + 1].value
                 q3      == sorted[q3Index + 1].value
                 iqr     == q3 - q1
                 lower2  == 2 * q1 - 3 * iqr
                 upper2  == 2 * q3 + 3 * iqr
                 flagged == SelectSeq(values,
                                LAMBDA item : 2 * item.value < lower2 \/ 2 * item.value > upper2)
             IN  [outlierIndices |-> [n \in 1..Len(flagged) |-> flagged[n].index],
                  outlierCount   |-> Len(flagged),
                  bounds         |-> [lower |-> Round2(lower2, 2), upper |-> Round2(upper2, 2)]]

(***************************************************************************)
(* SpecOutliers: one call of findOutliers on the column amount             *)
(***************************************************************************)
OutlierValues ==
    { <<"1">>, <<"3">>, <<"1", "0", "0">>, <<" ">>, <<>>, <<"x">> }

\* the column of the spec's example: 1, 2, 3, 4, 5, 100
ExampleColumn ==
    << <<"1">>, <<"2">>, <<"3">>, <<"4">>, <<"5">>, <<"1", "0", "0">> >>

AsRows(column) == [i \in 1..Len(column) |-> [amount |-> column[i]]]

\* the state of the analyzer in the specifications that do not call it
IdleOutliers ==
    /\ outlierData = <<>>
    /\ outlierResult = NoOutliers

InitOutliers ==
    /\ phase = "ready"
    /\ \E column \in SeqsUpTo(OutlierValues, MaxOutlierRows) \cup {ExampleColumn} :
           outlierData = AsRows(column)
    /\ outlierResult = NoOutliers

\* findOutliers(data, column)
CallFindOutliers ==
    /\ phase = "ready"
    /\ phase' = "done"
    /\ outlierResult' = findOutliers(outlierData, "amount")
    /\ UNCHANGED outlierData

(***************************************************************************)
(* AnonymizationTransformer: anonymizeValue, maskValue, maskGeneric and    *)
(* hashValue (components/AnonymizePanel.jsx).  The 32-bit hash is kept as  *)
(* its two 16-bit halves <<high, low>>, so that no product leaves the      *)
(* range of the checker's integers.                                        *)
(***************************************************************************)
\* the characters of code units 32 to 126, in order; the double quote,
\* the backslash and the backquote are named, not written
PrintableAscii ==
    <<" ", "!", "(quote)", "#", "$", "%", "&", "'", "(", ")", "*", "+", ",",
      "-", ".", "/", "0", "1", "2", "3", "4", "5", "6", "7", "8", "9", ":",
      ";", "<", "=", ">", "?", "@", "A", "B", "C", "D", "E", "F", "G", "H",
      "I", "J", "K", "L", "M", "N", "O", "P", "Q", "R", "S", "T", "U", "V",
      "W", "X", "Y", "Z", "[", "(backslash)", "]", "^", "_", "(backquote)", "a", "b", "c",
      "d", "e", "f", "g", "h", "i", "j", "k", "l", "m", "n", "o", "p", "q",
      "r", "s", "t", "u", "v", "w", "x", "y", "z", "{", "|", "}", "~">>

\* value.charCodeAt(i), for a printable ASCII character
CharCodeAt(c) == 31 + CHOOSE i \in 1..Len(PrintableAscii) : PrintableAscii[i] = c

Half == 65536

\* hash = ((hash << 5) - hash) + char; hash = hash & hash: 31 * hash + char
\* wrapped to 32 bits
HashStep(hash, char) ==
    LET low == 31 * hash[2] + char
    IN  << (31 * hash[1] + low \div Half) % Half, low % Half >>

\* the for loop of hashValue
RECURSIVE HashLoop(_, _)
HashLoop(hash, value) ==
    IF value = <<>> THEN hash
    ELSE HashLoop(HashStep(hash, CharCodeAt(Head(value))), Tail(value))

\* Math.abs(hash) of the signed reading of the 32 bits: a pattern with the
\* top bit set stands for a negative number, whose absolute value is the
\* two's complement (2^31 for the pattern 80000000)
MathAbs(hash) ==
    IF hash[1] < Half \div 2 THEN hash
    ELSE IF hash[2] = 0 THEN << Half - hash[1], 0 >>
    ELSE << Half - 1 - hash[1], Half - hash[2] >>

HexDigits == <<"0", "1", "2", "3", "4", "5", "6", "7", "8", "9", "a", "b", "c", "d", "e", "f">>

\* the hexadecimal digits of n, without leading zeros; none for 0
RECURSIVE HexOf(_)
HexOf(n) == IF n = 0 THEN <<>> ELSE Append(HexOf(n \div 16), HexDigits[(n % 16) + 1])

\* a padStart that pads nothing
PadStartNothing(s, length, fill) == s

RECURSIVE PadStart(_, _, _)
PadStart(s, length, fill) == IF Len(s) >= length THEN s ELSE PadStart(<<fill>> \o s, length, fill)

\* Number.prototype.toString(16) of a non-negative number given by halves
ToString16(n) ==
    IF n[1] = 0 THEN (IF n[2] = 0 THEN <<"0">> ELSE HexOf(n[2]))
    ELSE HexOf(n[1]) \o PadStart(HexOf(n[2]), 4, "0")

\* one character of String.prototype.toUpperCase, for hexadecimal digits
UpperHexChar(c) ==
    CASE c = "a" -> "A" [] c = "b" -> "B" [] c = "c" -> "C"
      [] c = "d" -> "D" [] c = "e" -> "E" [] c = "f" -> "F" [] OTHER -> c

\* s.slice(from, to), 0 <= from
Slice(s, from, to) == SubSeq(s, from + 1, IF to < Len(s) THEN to ELSE Len(s))

\* hashValue(value)
hashValue(value) ==
    LET hexHash == PadStart(ToString16(MathAbs(HashLoop(<<0, 0>>, value))), 8, "0")
        token   == Slice(hexHash, 0, 8)
    IN  [i \in 1..Len(token) |-> UpperHexChar(token[i])]

Stars(n) == [i \in 1..n |-> "*"]

\* maskGeneric(value)
maskGeneric(value) ==
    IF Len(value) <= 2 THEN Stars(3)
    ELSE <<value[1]>> \o Stars(IF Len(value) - 2 < 5 THEN Len(value) - 2 ELSE 5)
         \o <<value[Len(value)]>>

\* value.split('@')
RECURSIVE SplitAt(_, _)
SplitAt(s, piece) ==
    IF s = <<>> THEN <<piece>>
    ELSE IF Head(s) = "@" THEN <<piece>> \o SplitAt(Tail(s), <<>>)
    ELSE SplitAt(Tail(s), Append(piece, Head(s)))

\* value.replace(/\D/g, '')
DigitsOnly(value) == SelectSeq(value, LAMBDA c : c \in DecimalDigits)

\* maskValue(value, smartType)
maskValue(value, smartType) ==
    CASE smartType = "email" ->
             LET parts == SplitAt(value, <<>>)
             IN  IF Len(parts) = 2
                 THEN (IF Len(parts[1]) > 1 THEN <<parts[1][1]>> \o Stars(3) ELSE Stars(3))
                      \o <<"@">> \o parts[2]
                 ELSE maskGeneric(value)
      [] smartType = "phone" ->
             LET digits == DigitsOnly(value)
             IN  IF Len(digits) >= 4
                 THEN <<"*", "*", "*", "-", "*", "*", "*", "-">>
                      \o SubSeq(digits, Len(digits) - 3, Len(digits))
                 ELSE <<"*", "*", "*", "-", "*", "*", "*", "-", "*", "*", "*", "*">>
      [] smartType = "zipcode" ->
             LET digits == DigitsOnly(value)
             IN  IF Len(digits) >= 2 THEN Slice(digits, 0, 2) \o Stars(3) ELSE Stars(5)
      [] OTHER -> maskGeneric(value)

Redacted == <<"[", "R", "E", "D", "A", "C", "T", "E", "D", "]">>

AnonymizationMethods == {"mask", "redact", "hash", "remove"}

\* anonymizeValue(value, method, smartType)
anonymizeValue(value, method, smartType) ==
    IF value = Null \/ value = Undefined \/ value = <<>> THEN value
    ELSE CASE method = "mask"   -> maskValue(value, smartType)
           [] method = "redact" -> Redacted
           [] method = "hash"   -> hashValue(value)
           [] method = "remove" -> Null
           [] OTHER             -> value

(***************************************************************************)
(* SpecAnonymizeValue: one cell value anonymized twice, once for the       *)
(* preview and once for the export, as AnonymizePanel does                 *)
(***************************************************************************)
MaxAnonLen == 3

AnonAlphabet == {"a", "@", "1", " ", "~"}

\* values long enough for the rolling hash to wrap; the first one hashes to
\* -2^31
LongValues ==
    { <<"p", "o", "l", "y", "g", "e", "n", "e", "l", "u", "b", "r", "i", "c", "a", "n", "t", "s">>,
      <<"h", "e", "l", "l", "o", " ", "w", "o", "r", "l", "d">>,
      <<"~", "~", "~", "~", "~", "~", "~", "~">>,
      <<"1", "2", "3", "4", "5">> }

AnonValues == SeqsUpTo(AnonAlphabet, MaxAnonLen) \cup LongValues \cup {Null, Undefined}

\* the methods of ANONYMIZATION_METHODS and one that is none of them
AnonMethodInputs == AnonymizationMethods \cup {"none"}

AnonSmartTypes == {"email", "phone", "zipcode", "text"}

\* the state of the value harness in the specifications that do not use it
IdleAnonymizeValue ==
    /\ anonValue = Null
    /\ anonMethod = "mask"
    /\ anonSmartType = "text"
    /\ anonOutput = <<>>

InitAnonymizeValue ==
    /\ phase = "ready"
    /\ anonValue \in AnonValues
    /\ anonMethod \in AnonMethodInputs
    /\ anonSmartType \in AnonSmartTypes
    /\ anonOutput = <<>>

\* anonymizeValue(row[col], method, colSmartType) in previewData and again in
\* handleAnonymizedDownload
CallAnonymizeValue ==
    /\ phase = "ready"
    /\ phase' = "done"
    /\ anonOutput' = << anonymizeValue(anonValue, anonMethod, anonSmartType),
                        anonymizeValue(anonValue, anonMethod, anonSmartType) >>
    /\ UNCHANGED <<anonValue, anonMethod, anonSmartType>>

(***************************************************************************)
(* AnonymizePanel (components/AnonymizePanel.jsx): the selection of        *)
(* columns and methods, the preview of the first rows and the export.      *)
(* A row is a function from its keys to its values.                        *)
(***************************************************************************)
SENSITIVE_SMART_TYPES == {"email", "phone", "url", "zipcode"}

\* the columns prop and the smartTypes prop of the panel
AnonColumns == <<"email", "name">>

AnonColumnSet == {AnonColumns[i] : i \in 1..Len(AnonColumns)}

\* smartTypes[col]?.smartType
SmartTypeOf(col) == IF col = "email" THEN "email" ELSE "text"

\* the effect that runs when the panel opens: every sensitive column is
\* selected with method mask
DetectedColumns ==
    [col \in {c \in AnonColumnSet : SmartTypeOf(c) \in SENSITIVE_SMART_TYPES} |-> "mask"]

\* sensitiveColumns
sensitiveColumns == {c \in AnonColumnSet : SmartTypeOf(c) \in SENSITIVE_SMART_TYPES}

\* hasAnonymization
hasAnonymization == DOMAIN anonymizedColumns # {}

\* newRow[col] = value, on a row given as a function
SetKey(r, col, value) ==
    [k \in (DOMAIN r) \cup {col} |-> IF k = col THEN value ELSE r[k]]

\* a delete that blanks the value and keeps the key
BlankKey(r, col) == [k \in DOMAIN r |-> IF k = col THEN Null ELSE r[k]]

\* delete newRow[col]
DeleteKey(r, col) == [k \in (DOMAIN r) \ {col} |-> r[k]]

\* the value previewData writes for an anonymized column
PreviewCell(r, col, method) == anonymizeValue(Get(r, col), method, SmartTypeOf(col))

\* the forEach over Object.entries(anonymizedColumns) of previewData, from
\* entry i on; the entries touch different keys, so their order does not
\* show in the result and the order of the columns is taken
RECURSIVE PreviewEntries(_, _, _, _)
PreviewEntries(newRow, r, selection, i) ==
    IF i > Len(AnonColumns) THEN newRow
    ELSE LET col == AnonColumns[i]
         IN  IF col \notin DOMAIN selection
             THEN PreviewEntries(newRow, r, selection, i + 1)
             ELSE IF selection[col] = "remove"
                  THEN PreviewEntries(DeleteKey(newRow, col), r, selection, i + 1)
                  ELSE PreviewEntries(SetKey(newRow, col, PreviewCell(r, col, selection[col])),
                                      r, selection, i + 1)

\* the memo previewData
PreviewData(data, selection) ==
    IF Len(data) = 0 THEN <<>>
    ELSE LET first == Slice(data, 0, 5)
         IN  [i \in 1..Len(first) |-> PreviewEntries(first[i], first[i], selection, 1)]

previewData == PreviewData(anonData, anonymizedColumns)

\* the memo previewColumns
previewColumns ==
    {c \in AnonColumnSet : c \notin DOMAIN anonymizedColumns \/ anonymizedColumns[c] # "remove"}

\* an export that writes the cell as it is
ExportCellRaw(r, col, method) == Get(r, col)

\* the value handleAnonymizedDownload writes for an anonymized column
ExportCell(r, col, method) == anonymizeValue(Get(r, col), method, SmartTypeOf(col))

\* the columns.forEach of handleAnonymizedDownload, from column i on
RECURSIVE ExportColumns(_, _, _, _)
ExportColumns(newRow, r, selection, i) ==
    IF i > Len(AnonColumns) THEN newRow
    ELSE LET col == AnonColumns[i]
         IN  IF col \in DOMAIN selection /\ selection[col] = "remove"
             THEN ExportColumns(newRow, r, selection, i + 1)
             ELSE IF col \in DOMAIN selection
                  THEN ExportColumns(SetKey(newRow, col, ExportCell(r, col, selection[col])),
                                     r, selection, i + 1)
                  ELSE ExportColumns(SetKey(newRow, col, Get(r, col)), r, selection, i + 1)

\* the object literal {}
EmptyObject == [k \in {} |-> Null]

(***************************************************************************)
(* SpecAnonymize: a session of the open panel, ended by the download       *)
(***************************************************************************)
MaxAnonRows == 6

\* the rows the data is made of: a full row, a row with an empty cell and a
\* row that lacks a column
AnonRowKinds ==
    { [email |-> <<"a", "b", "@", "c">>, name |-> <<"T", "o", "m">>],
      [email |-> <<>>, name |-> <<"1", "2", "3", "4", "5">>],
      [email |-> <<"b">>] }

\* the state of the panel in the specifications that do not open it
IdleAnonymize ==
    /\ anonData = <<>>
    /\ anonymizedColumns = EmptyObject
    /\ anonymizedData = <<>>

\* the panel has opened on some data and the effect has run
InitAnonymize ==
    /\ phase = "ready"
    /\ anonData \in SeqsUpTo(AnonRowKinds, MaxAnonRows)
    /\ anonymizedColumns = DetectedColumns
    /\ anonymizedData = <<>>

\* toggleColumn(col)
toggleColumn(col) ==
    /\ phase = "ready"
    /\ anonymizedColumns' =
           IF col \in DOMAIN anonymizedColumns
           THEN DeleteKey(anonymizedColumns, col)
           ELSE SetKey(anonymizedColumns, col, "mask")
    /\ UNCHANGED <<phase, anonData, anonymizedData>>

\* setMethod(col, method); the method buttons show for a selected column
setMethod(col, method) ==
    /\ phase = "ready"
    /\ col \in DOMAIN anonymizedColumns
    /\ anonymizedColumns' = SetKey(anonymizedColumns, col, method)
    /\ UNCHANGED <<phase, anonData, anonymizedData>>

\* selectAllSensitive
selectAllSensitive ==
    /\ phase = "ready"
    /\ sensitiveColumns # {}
    /\ anonymizedColumns' =
           [c \in (DOMAIN anonymizedColumns) \cup sensitiveColumns |->
               IF c \in DOMAIN anonymizedColumns THEN anonymizedColumns[c] ELSE "mask"]
    /\ UNCHANGED <<phase, anonData, anonymizedData>>

\* clearAll
clearAll ==
    /\ phase = "ready"
    /\ hasAnonymization
    /\ anonymizedColumns' = EmptyObject
    /\ UNCHANGED <<phase, anonData, anonymizedData>>

\* handleAnonymizedDownload: onDownload(anonymizedData); onClose()
handleAnonymizedDownload ==
    /\ phase = "ready"
    /\ anonymizedData' =
           [i \in 1..Len(anonData) |->
               ExportColumns(EmptyObject, anonData[i], anonymizedColumns, 1)]
    /\ phase' = "done"
    /\ UNCHANGED <<anonData, anonymizedColumns>>

\* what a step of the panel leaves alone
AnonFrame ==
    UNCHANGED <<condVars, filterVars, joinVars, pivotVars, outlierVars, anonValueVars, envVars, typeVars, historyVars, qualityVars>>

NextAnonymize ==
    \/ \E col \in AnonColumnSet : toggleColumn(col) /\ AnonFrame
    \/ \E col \in AnonColumnSet, method \in AnonymizationMethods :
           setMethod(col, method) /\ AnonFrame
    \/ selectAllSensitive /\ AnonFrame
    \/ clearAll /\ AnonFrame
    \/ handleAnonymizedDownload /\ AnonFrame

(***************************************************************************)
(* TypeInference: detectType and detectColumnTypes (src/lib/utils.js)      *)
(***************************************************************************)
\* detectType(value)
detectType(value) ==
    IF value = Null \/ value = Undefined \/ value = <<>> THEN "string"
    ELSE IF ~NumberIsNaN(value) /\ Trim(value) # <<>> THEN "number"
    ELSE IF ~DateIsNaN(value) /\ Len(value) > 5 THEN "date"
    ELSE "string"

\* the number of rows detectColumnTypes looks at
SampleSize == 10

\* a sample that is the whole table
SampleAll(data) == data

\* data.slice(0, 10)
Sample(data) == Slice(data, 0, SampleSize)

\* if (row[key]): null, undefined and '' are falsy
Truthy(value) == ~(value = Null \/ value = Undefined \/ value = <<>>)

\* the loop over the sample for one key, from row i on, type being the
\* type found so far
RECURSIVE ScanSample(_, _, _, _)
ScanSample(sample, key, i, type) ==
    IF i > Len(sample) THEN type
    ELSE IF Truthy(Get(sample[i], key))
         THEN LET found == detectType(Get(sample[i], key))
              IN  IF found # "string" THEN found
                  ELSE ScanSample(sample, key, i + 1, found)
         ELSE ScanSample(sample, key, i + 1, type)

\* detectColumnTypes(data)
detectColumnTypes(data) ==
    IF Len(data) = 0 THEN [k \in {} |-> "string"]
    ELSE [key \in DOMAIN data[1] |-> ScanSample(Sample(data), key, 1, "string")]

(***************************************************************************)
(* SpecDetectTypes: one call of detectColumnTypes on a table of the        *)
(* columns id and value                                                    *)
(***************************************************************************)
MaxTypeRows == 12

\* cell values: empty, blank, text, a number, an ISO date, a local date and
\* a missing cell
TypeValues ==
    { <<>>, <<" ">>, <<"x">>, <<"1", "2">>,
      <<"2", "0", "2", "5", "-", "0", "1", "-", "0", "2">>,
      <<"1", "/", "2", "/", "2", "0", "2", "5">>,
      Undefined }

TypeRow(v) == IF v = Undefined THEN [id |-> <<"x">>] ELSE [id |-> <<"x">>, value |-> v]

\* the tables of the harness: n rows, value a before row p, b in row p and
\* c after it
TypeTables ==
    {<<>>} \cup
    { [i \in 1..n |-> TypeRow(IF i < p THEN a ELSE IF i = p THEN b ELSE c)] :
          n \in 1..MaxTypeRows, p \in {1, 2, SampleSize, SampleSize + 1, MaxTypeRows},
          a \in TypeValues, b \in TypeValues, c \in TypeValues }

\* the state of the type inference in the specifications that do not call it
IdleDetectTypes ==
    /\ typeData = <<>>
    /\ typeResult = [k \in {} |-> "string"]

InitDetectTypes ==
    /\ phase = "ready"
    /\ typeData \in TypeTables
    /\ typeResult = [k \in {} |-> "string"]

\* detectColumnTypes(data)
CallDetectColumnTypes ==
    /\ phase = "ready"
    /\ phase' = "done"
    /\ typeResult' = detectColumnTypes(typeData)
    /\ UNCHANGED typeData

(***************************************************************************)
(* DataCleaning and the undo history: cleanColumn (lib/utils.js),          *)
(* saveToHistory, handleCleaningApply, handleUndo and handleRedo (App.jsx) *)
(***************************************************************************)
\* one character of String.prototype.toUpperCase
UpperChar(c) ==
    CASE c = "a" -> "A"
      [] c = "t" -> "T"
      [] c = "o" -> "O"
      [] c = "m" -> "M"
      [] OTHER   -> c

ToUpperCase(s) == [i \in 1..Len(s) |-> UpperChar(s[i])]

\* the operations of the cleaning panel that are modelled
CleaningOperations == {"trim", "uppercase", "lowercase"}

\* the switch of cleanColumn on a string value
CleanValue(strValue, operation) ==
    CASE operation = "trim"      -> Trim(strValue)
      [] operation = "uppercase" -> ToUpperCase(strValue)
      [] operation = "lowercase" -> ToLowerCase(strValue)
      [] OTHER                   -> strValue

\* cleanColumn(data, column, operation)
cleanColumn(data, column, operation) ==
    [i \in 1..Len(data) |->
        IF IsNullish(Get(data[i], column)) THEN data[i]
        ELSE SetKey(data[i], column, CleanValue(Get(data[i], column), operation))]

MAX_HISTORY == 50

canUndo == historyIndex >= 0
canRedo == historyIndex < Len(history) - 1

\* saveToHistory: the history after the new entry is pushed (the operation
\* name and the timestamp of an entry are not modelled)
HistoryAfterSave(entry) ==
    LET newHistory == Append(Slice(history, 0, historyIndex + 1), entry)
    IN  IF Len(newHistory) > MAX_HISTORY
        THEN SubSeq(newHistory, Len(newHistory) - MAX_HISTORY + 1, Len(newHistory))
        ELSE newHistory

\* an index that is not held under MAX_HISTORY
IndexAfterSaveUncapped == historyIndex + 1

\* saveToHistory: the index after the new entry is pushed
IndexAfterSave ==
    IF historyIndex + 1 < MAX_HISTORY - 1 THEN historyIndex + 1 ELSE MAX_HISTORY - 1

(***************************************************************************)
(* SpecHistory: a session on the tables guests and attendance, without     *)
(* joins: cleaning, undo, redo, choosing the active table and removing a   *)
(* table                                                                   *)
(***************************************************************************)
MaxCleanings == 3

GuestsData     == << [name |-> <<"T", "o", "m">>] >>
AttendanceData == << [name |-> <<" ", "t">>] >>

\* the state of the history in the specifications that clean nothing
IdleHistory ==
    /\ history = <<>>
    /\ historyIndex = -1

\* the two files are loaded and nothing has been cleaned yet
InitHistory ==
    /\ phase = "ready"
    /\ tables = PutTable(PutTable(<<>>, "guests", GuestsData), "attendance", AttendanceData)
    /\ tableAliases = AliasesAfterLoad(AliasesAfterLoad(NoAliases, "guests"), "attendance")
    /\ activeTable = "guests"
    /\ joins = <<>>
    /\ joinedData = JoinedDataMemo(tables, activeTable, joins)
    /\ history = <<>>
    /\ historyIndex = -1

\* setActiveTable(name), from a tab of TableManager
SelectTable(name) ==
    /\ Running
    /\ HasTable(tables, name)
    /\ activeTable' = name
    /\ joinedData' = JoinedDataMemo(tables, activeTable', joins)
    /\ UNCHANGED <<tables, joins, tableAliases, history, historyIndex>>

\* the key of a row of joinedData as a string: without joins the key
\* <<"", c>> is the column name c itself, with joins <<t, c>> is `${t}.${c}`
ColumnName(k) == IF k[1] = "" THEN k[2] ELSE k[1] \o "." \o k[2]

\* the rows of joinedData as the rows of a table, their keys as strings
AsTableRows(data) ==
    [i \in 1..Len(data) |->
        [c \in {ColumnName(k) : k \in DOMAIN data[i]} |->
            data[i][CHOOSE k \in DOMAIN data[i] : ColumnName(k) = c]]]

\* handleApply of DataCleaningPanel, which is given joinedData.data and
\* joinedData.columns, on a column of these, then
\* handleCleaningApply(cleanedData)
handleCleaningApply(column, operation) ==
    LET cleanedData == AsTableRows(cleanColumn(joinedData.data, column, operation))
    IN  /\ Running
        /\ activeTable # NoTable
        /\ HasTable(tables, activeTable)
        /\ history' = HistoryAfterSave([tableName |-> activeTable,
                                        oldData   |-> DataOf(tables, activeTable),
                                        newData   |-> cleanedData])
        /\ historyIndex' = IndexAfterSave
        /\ tables' = PutTable(tables, activeTable, cleanedData)
        /\ joinedData' = JoinedDataMemo(tables', activeTable, joins)
        /\ UNCHANGED <<activeTable, joins, tableAliases>>

\* an undo that puts the data of after the operation
UndoDataNew(entry) == entry.newData

\* the data handleUndo puts back
UndoData(entry) == entry.oldData

\* the setTables of handleUndo: the table of the entry, if it is loaded,
\* gets the entry's oldData
TablesAfterUndo(tbls, entry) ==
    IF HasTable(tbls, entry.tableName)
    THEN PutTable(tbls, entry.tableName, UndoData(entry))
    ELSE tbls

\* the setTables of handleRedo: the table of the entry, if it is loaded,
\* gets the entry's newData
TablesAfterRedo(tbls, entry) ==
    IF HasTable(tbls, entry.tableName)
    THEN PutTable(tbls, entry.tableName, entry.newData)
    ELSE tbls

\* handleUndo, from the button or from Ctrl+Z
handleUndo ==
    /\ Running
    /\ canUndo
    /\ tables' = TablesAfterUndo(tables, history[historyIndex + 1])
    /\ historyIndex' = historyIndex - 1
    /\ joinedData' = JoinedDataMemo(tables', activeTable, joins)
    /\ UNCHANGED <<activeTable, joins, tableAliases, history>>

\* handleRedo, from the button or from Ctrl+Y
handleRedo ==
    /\ Running
    /\ canRedo
    /\ tables' = TablesAfterRedo(tables, history[historyIndex + 2])
    /\ historyIndex' = historyIndex + 1
    /\ joinedData' = JoinedDataMemo(tables', activeTable, joins)
    /\ UNCHANGED <<activeTable, joins, tableAliases, history>>

\* what a step of the session leaves alone
HistoryFrame ==
    UNCHANGED <<phase, condVars, filterVars, pivotVars, outlierVars, anonValueVars, anonVars, envVars, typeVars, qualityVars>>

NextHistory ==
    \/ \E name \in {"guests", "attendance"} : SelectTable(name) /\ HistoryFrame
    \/ \E column \in joinedData.columns, operation \in CleaningOperations :
           /\ Len(history) < MaxCleanings
           /\ handleCleaningApply(column, operation) /\ HistoryFrame
    \/ handleUndo /\ HistoryFrame
    \/ handleRedo /\ HistoryFrame
    \/ RemoveTable /\ UNCHANGED <<history, historyIndex>> /\ HistoryFrame

(***************************************************************************)
(* SpecDateCondition: one evaluation of applyFilter on a date condition,   *)
(* in one of the time zones                                                *)
(***************************************************************************)
\* the values of the column date_submitted: dates with and without a time
\* of day, an ISO date and an empty cell
DateCells ==
    { <<"1", "/", "1", "/", "2", "0", "2", "5">>,
      <<"1", "/", "1", "/", "2", "0", "2", "5", " ", "2", "3", ":", "3", "0", ":", "0", "0">>,
      <<"1", "/", "1", "/", "2", "0", "2", "5", " ", "1", "1", ":", "3", "1", ":", "5", "3", " ", "A", "M">>,
      <<"1", "/", "2", "/", "2", "0", "2", "5">>,
      <<"1", "/", "2", "/", "2", "0", "2", "5", " ", "0", "0", ":", "1", "0", ":", "0", "0">>,
      <<"1", "2", "/", "3", "1", "/", "2", "0", "2", "4", " ", "1", "1", ":", "5", "9", ":", "5", "9", " ", "P", "M">>,
      <<"2", "0", "2", "5", "-", "0", "1", "-", "0", "1">>,
      <<>> }

\* the values of the date picker
PickedDates ==
    { <<"2", "0", "2", "5", "-", "0", "1", "-", "0", "1">>,
      <<"2", "0", "2", "5", "-", "0", "1", "-", "0", "2">> }

\* the date operators of the filter: those of OPERATORS_BY_TYPE.date and the
\* two the tests select
DateConditionOperators == {"is before", "is after", "is on", "is not on"}

InitDateCondition ==
    /\ phase = "ready"
    /\ \E cell \in DateCells : row = [date_submitted |-> cell]
    /\ \E op \in DateConditionOperators, v \in PickedDates :
           condition = [NewCondition(0) EXCEPT !.field = "date_submitted",
                                               !.operator = op, !.value = v]
    /\ isCaseSensitive \in BOOLEAN
    /\ matched = FALSE

(***************************************************************************)
(* DataQualityAnalyzer: findDuplicates and detectDataQuality                *)
(* (lib/utils.js).  A result object is a function from its keys to their   *)
(* values, so that a key the code does not write is no element of its      *)
(* DOMAIN.  Scores and percentages are computed on exact fractions; the    *)
(* binary rounding of floating point is not modelled.                      *)
(***************************************************************************)
\* findDuplicates(data).duplicateCount: the rows whose JSON.stringify was
\* seen at an earlier index.  The rows of one table list their keys in one
\* order and hold no undefined, so two rows have the same JSON text
\* exactly when they are equal.
findDuplicates(data) ==
    LET duplicateIndices ==
            SelectSeq([i \in 1..Len(data) |-> i - 1],
                      LAMBDA index : \E k \in 1..index : data[k] = data[index + 1])
    IN  [duplicateIndices |-> duplicateIndices, duplicateCount |-> Len(duplicateIndices)]

\* v === null || v === undefined || v === '' ||
\* (typeof v === 'string' && v.trim() === '')
IsMissing(v) == IsNullish(v) \/ v = <<>> \/ (IsString(v) /\ Trim(v) = <<>>)

\* values.filter(v => ...).length over data.map(row => row[col])
MissingCount(data, col) ==
    Cardinality({i \in 1..Len(data) : IsMissing(Get(data[i], col))})

\* new Set(values.filter(v => v !== null && v !== undefined && v !== ''))
UniqueValues(data, col) ==
    {Get(data[i], col) : i \in 1..Len(data)} \ {Null, Undefined, <<>>}

\* Math.round(n / d) of a fraction n / d, n >= 0 and d > 0
RoundFraction(n, d) == (2 * n + d) \div (2 * d)

\* { outlierCount: 0, bounds: null }, the outlier record of a column that
\* is not numeric
NoOutlierInfo == [outlierCount |-> 0, bounds |-> Null]

\* the outlier record of a column
OutlierInfo(data, types, col) ==
    IF Get(types, col) = "number" THEN findOutliers(data, col) ELSE NoOutlierInfo

\* columnScore * totalRows: Math.max(0, 100 - missingPenalty - outlierPenalty)
\* as a multiple of 1 / totalRows
ColumnScore(data, types, col) ==
    LET n == 100 * Len(data) - 100 * MissingCount(data, col)
               - 50 * OutlierInfo(data, types, col).outlierCount
    IN  IF n > 0 THEN n ELSE 0

\* columnQuality[col]; missing.percent is held in tenths
ColumnQuality(data, types, col) ==
    LET totalRows      == Len(data)
        missingCount   == MissingCount(data, col)
        duplicateCount == totalRows - missingCount - Cardinality(UniqueValues(data, col))
    IN  [missing    |-> [count   |-> missingCount,
                         percent |-> RoundFraction(1000 * missingCount, totalRows)],
         duplicates |-> [count |-> IF duplicateCount > 0 THEN duplicateCount ELSE 0],
         outliers   |-> OutlierInfo(data, types, col),
         score      |-> RoundFraction(ColumnScore(data, types, col), totalRows)]

\* { overall: 0, columns: {} }
EmptyQuality == [overall |-> 0, columns |-> <<>>]

\* detectDataQuality(data, types), for a table whose first row has a key
detectDataQuality(data, types) ==
    IF Len(data) = 0 THEN EmptyQuality
    ELSE LET columns    == DOMAIN data[1]
             totalScore == SumOver(columns, [col \in columns |-> ColumnScore(data, types, col)])
         IN  [overall       |-> RoundFraction(totalScore, Len(data) * Cardinality(columns)),
              rowDuplicates |-> findDuplicates(data).duplicateCount,
              totalRows     |-> Len(data),
              columns       |-> [col \in columns |-> ColumnQuality(data, types, col)]]

(***************************************************************************)
(* SpecQuality: one call of detectDataQuality on a table of the columns    *)
(* id and value, a row of which may come without its value                 *)
(***************************************************************************)
\* how many rows the table handed to detectDataQuality holds
MaxQualityRows == 4

QualityValues == { <<"1">>, <<"3">>, <<" ">>, <<>>, Null }

QualityRows ==
    {[id |-> <<"7">>, value |-> v] : v \in QualityValues} \cup {[id |-> <<"7">>]}

\* the types handed to the call: the column value is shown as text or as
\* a number
QualityTypes == {[id |-> "number", value |-> t] : t \in {"string", "number"}}

\* the state of the analyzer in the specifications that do not call it
IdleQuality ==
    /\ qualityData = <<>>
    /\ qualityTypes = [id |-> "number", value |-> "string"]
    /\ qualityResult = EmptyQuality

InitQuality ==
    /\ phase = "ready"
    /\ qualityData \in SeqsUpTo(QualityRows, MaxQualityRows)
    /\ qualityTypes \in QualityTypes
    /\ qualityResult = EmptyQuality

\* detectDataQuality(data, types)
CallDetectDataQuality ==
    /\ phase = "ready"
    /\ phase' = "done"
    /\ qualityResult' = detectDataQuality(qualityData, qualityTypes)
    /\ UNCHANGED <<qualityData, qualityTypes>>

(***************************************************************************)
(* SpecTables: a session of App.jsx from its first file on: loading,       *)
(* reloading and removing tables, clearing everything, choosing the        *)
(* active table and configuring joins                                      *)
(***************************************************************************)
\* the files of the session: their table names and their parsed rows
FileNames == {"guests", "attendance", "inventory"}

FileData(name) ==
    CASE name = "guests"     -> << [name |-> <<"t">>] >>
      [] name = "attendance" -> << [name |-> <<"T">>], [name |-> <<" ", "t">>] >>
      [] name = "inventory"  -> << [name |-> <<"t">>] >>

\* handleDataLoaded(newData, tableName), from FileUpload
handleDataLoaded(newData, tableName) ==
    /\ Running
    /\ tables' = PutTable(tables, tableName, newData)
    /\ tableAliases' = AliasesAfterLoad(tableAliases, tableName)
    /\ activeTable' = IF activeTable # NoTable THEN activeTable ELSE tableName
    /\ joinedData' = JoinedDataMemo(tables', activeTable', joins)
    /\ UNCHANGED <<joins, history, historyIndex>>

\* handleClearAll, from the link under the table tabs: the history is
\* left as it is
handleClearAll ==
    /\ Running
    /\ Len(tables) > 0
    /\ tables' = <<>>
    /\ activeTable' = NoTable
    /\ joins' = <<>>
    /\ tableAliases' = NoAliases
    /\ ClearAll
    /\ joinedData' = JoinedDataMemo(tables', activeTable', joins')
    /\ UNCHANGED <<history, historyIndex>>

\* what a step of the session leaves alone
TablesFrame ==
    UNCHANGED <<phase, condVars, pivotVars, outlierVars, anonValueVars, anonVars, envVars, typeVars, qualityVars>>

NextTables ==
    \/ \E name \in FileNames :
           handleDataLoaded(FileData(name), name) /\ UNCHANGED filterVars /\ TablesFrame
    \/ RemoveTable /\ UNCHANGED <<history, historyIndex, filterVars>> /\ TablesFrame
    \/ handleClearAll /\ TablesFrame
    \/ \E name \in TableNames(tables) :
           SelectTable(name) /\ UNCHANGED filterVars /\ TablesFrame
    \/ AddJoin /\ UNCHANGED <<history, historyIndex, filterVars>> /\ TablesFrame
    \/ RemoveJoin /\ UNCHANGED <<history, historyIndex, filterVars>> /\ TablesFrame

(***************************************************************************)
(* SpecCleaning: a session on the tables guests and attendance, with and   *)
(* without a join: cleaning, undo, redo, loading a file again, removing a  *)
(* table and choosing the active table                                     *)
(***************************************************************************)
\* how many cleanings the session applies
MaxEdits == 1

\* the cleaning operation of the session
SessionOperations == {"uppercase"}

\* the files guests and attendance are loaded
InitCleaning ==
    /\ tables = PutTable(PutTable(<<>>, "guests", FileData("guests")),
                         "attendance", FileData("attendance"))
    /\ tableAliases = AliasesAfterLoad(AliasesAfterLoad(NoAliases, "guests"), "attendance")
    /\ activeTable = "guests"
    /\ joins = <<>>
    /\ joinedData = JoinedDataMemo(tables, activeTable, joins)
    /\ history = <<>>
    /\ historyIndex = -1

CleaningFrame ==
    UNCHANGED <<phase, condVars, filterVars, pivotVars, outlierVars, anonValueVars, anonVars, envVars, typeVars, qualityVars>>

NextCleaning ==
    \/ \E name \in {"guests", "attendance"} :
           handleDataLoaded(FileData(name), name) /\ CleaningFrame
    \/ RemoveTable /\ UNCHANGED <<history, historyIndex>> /\ CleaningFrame
    \/ \E name \in TableNames(tables) : SelectTable(name) /\ CleaningFrame
    \/ AddJoin /\ UNCHANGED <<history, historyIndex>> /\ CleaningFrame
    \/ RemoveJoin /\ UNCHANGED <<history, historyIndex>> /\ CleaningFrame
    \/ \E column \in joinedData.columns, operation \in SessionOperations :
           /\ Len(history) < MaxEdits
           /\ handleCleaningApply(column, operation) /\ CleaningFrame
    \/ handleUndo /\ CleaningFrame
    \/ handleRedo /\ CleaningFrame

(***************************************************************************)
(* SpecConditionEdit: the conditions of the root group edited through      *)
(* FilterCondition, over a table with a text column and a numeric column   *)
(***************************************************************************)
InitConditionEdit ==
    /\ filterTree = NewGroup(0)
    /\ nextId = 1
    /\ columnTypes = PeopleTypes

ConditionEditFrame ==
    UNCHANGED <<phase, condVars, joinVars, pivotVars, outlierVars, anonValueVars, anonVars, envVars, typeVars, historyVars, qualityVars>>

NextConditionEdit ==
    \/ AddCondition /\ ConditionEditFrame
    \/ SelectField /\ ConditionEditFrame
    \/ SelectOperator /\ ConditionEditFrame
    \/ EditValue /\ ConditionEditFrame

(***************************************************************************)
(* SpecHistoryCap: a session on the table guests alone in which the one    *)
(* cleaning is applied as often as the user likes, so that the history     *)
(* fills up to MAX_HISTORY entries and beyond                              *)
(***************************************************************************)
InitHistoryCap ==
    /\ tables = PutTable(<<>>, "guests", GuestsData)
    /\ tableAliases = AliasesAfterLoad(NoAliases, "guests")
    /\ activeTable = "guests"
    /\ joins = <<>>
    /\ joinedData = JoinedDataMemo(tables, activeTable, joins)
    /\ history = <<>>
    /\ historyIndex = -1

HistoryCapFrame ==
    UNCHANGED <<phase, condVars, filterVars, pivotVars, outlierVars, anonValueVars, anonVars, envVars, typeVars, qualityVars>>

NextHistoryCap ==
    \/ \E column \in joinedData.columns :
           handleCleaningApply(column, "uppercase") /\ HistoryCapFrame
    \/ handleUndo /\ HistoryCapFrame
    \/ handleRedo /\ HistoryCapFrame

(***************************************************************************)
(* Specifications                                                          *)
(***************************************************************************)
NextCondition ==
    EvaluateCondition /\ UNCHANGED <<filterVars, joinVars, pivotVars, outlierVars, anonValueVars, anonVars, envVars, typeVars, historyVars, qualityVars>>
NextJoinCall ==
    CallPerformJoin /\ UNCHANGED <<condVars, filterVars, pivotVars, outlierVars, anonValueVars, anonVars, envVars, typeVars, historyVars, qualityVars>>
NextPivot ==
    CallCreatePivotData /\ UNCHANGED <<condVars, filterVars, joinVars, outlierVars, anonValueVars, anonVars, envVars, typeVars, historyVars, qualityVars>>
NextOutliers ==
    CallFindOutliers /\ UNCHANGED <<condVars, filterVars, joinVars, pivotVars, anonValueVars, anonVars, envVars, typeVars, historyVars, qualityVars>>
NextAnonymizeValue ==
    CallAnonymizeValue /\ UNCHANGED <<condVars, filterVars, joinVars, pivotVars, outlierVars, anonVars, envVars, typeVars, historyVars, qualityVars>>
NextDetectTypes ==
    CallDetectColumnTypes /\ UNCHANGED <<condVars, filterVars, joinVars, pivotVars, outlierVars, anonValueVars, anonVars, envVars, historyVars, qualityVars>>
NextDateCondition ==
    EvaluateCondition /\ UNCHANGED <<filterVars, joinVars, pivotVars, outlierVars, anonValueVars, anonVars, envVars, typeVars, historyVars, qualityVars>>
NextQuality ==
    CallDetectDataQuality /\ UNCHANGED <<condVars, filterVars, joinVars, pivotVars, outlierVars, anonValueVars, anonVars, envVars, typeVars, historyVars>>

InitSpecCondition ==
    /\ InitCondition
    /\ InitFilter
    /\ IdleJoin
    /\ IdlePivot
    /\ IdleOutliers
    /\ IdleAnonymizeValue
    /\ IdleAnonymize
    /\ IdleEnvironment
    /\ IdleDetectTypes
    /\ IdleHistory
    /\ IdleQuality
InitSpecFilter ==
    /\ phase = "ready"
    /\ IdleCondition
    /\ InitFilter
    /\ IdleJoin
    /\ IdlePivot
    /\ IdleOutliers
    /\ IdleAnonymizeValue
    /\ IdleAnonymize
    /\ IdleEnvironment
    /\ IdleDetectTypes
    /\ IdleHistory
    /\ IdleQuality
InitSpecJoin ==
    /\ phase = "ready"
    /\ IdleCondition
    /\ InitFilter
    /\ InitJoin
    /\ IdlePivot
    /\ IdleOutliers
    /\ IdleAnonymizeValue
    /\ IdleAnonymize
    /\ IdleEnvironment
    /\ IdleDetectTypes
    /\ IdleHistory
    /\ IdleQuality
InitSpecJoinCall ==
    /\ IdleCondition
    /\ InitFilter
    /\ InitJoinCall
    /\ IdlePivot
    /\ IdleOutliers
    /\ IdleAnonymizeValue
    /\ IdleAnonymize
    /\ IdleEnvironment
    /\ IdleDetectTypes
    /\ IdleHistory
    /\ IdleQuality
InitSpecPivot ==
    /\ IdleCondition
    /\ InitFilter
    /\ IdleJoin
    /\ InitPivot
    /\ IdleOutliers
    /\ IdleAnonymizeValue
    /\ IdleAnonymize
    /\ IdleEnvironment
    /\ IdleDetectTypes
    /\ IdleHistory
    /\ IdleQuality
InitSpecOutliers ==
    /\ IdleCondition
    /\ InitFilter
    /\ IdleJoin
    /\ IdlePivot
    /\ InitOutliers
    /\ IdleAnonymizeValue
    /\ IdleAnonymize
    /\ IdleEnvironment
    /\ IdleDetectTypes
    /\ IdleHistory
    /\ IdleQuality
InitSpecAnonymizeValue ==
    /\ IdleCondition
    /\ InitFilter
    /\ IdleJoin
    /\ IdlePivot
    /\ IdleOutliers
    /\ InitAnonymizeValue
    /\ IdleAnonymize
    /\ IdleEnvironment
    /\ IdleDetectTypes
    /\ IdleHistory
    /\ IdleQuality
InitSpecAnonymize ==
    /\ IdleCondition
    /\ InitFilter
    /\ IdleJoin
    /\ IdlePivot
    /\ IdleOutliers
    /\ IdleAnonymizeValue
    /\ InitAnonymize
    /\ IdleEnvironment
    /\ IdleDetectTypes
    /\ IdleHistory
    /\ IdleQuality
InitSpecDetectTypes ==
    /\ IdleCondition
    /\ InitFilter
    /\ IdleJoin
    /\ IdlePivot
    /\ IdleOutliers
    /\ IdleAnonymizeValue
    /\ IdleAnonymize
    /\ InitEnvironment
    /\ InitDetectTypes
    /\ IdleHistory
    /\ IdleQuality
InitSpecHistory ==
    /\ IdleCondition
    /\ InitFilter
    /\ IdlePivot
    /\ IdleOutliers
    /\ IdleAnonymizeValue
    /\ IdleAnonymize
    /\ IdleEnvironment
    /\ IdleDetectTypes
    /\ InitHistory
    /\ IdleQuality
InitSpecDateCondition ==
    /\ InitDateCondition
    /\ InitFilter
    /\ IdleJoin
    /\ IdlePivot
    /\ IdleOutliers
    /\ IdleAnonymizeValue
    /\ IdleAnonymize
    /\ InitEnvironment
    /\ IdleDetectTypes
    /\ IdleHistory
    /\ IdleQuality
InitSpecQuality ==
    /\ IdleCondition
    /\ InitFilter
    /\ IdleJoin
    /\ IdlePivot
    /\ IdleOutliers
    /\ IdleAnonymizeValue
    /\ IdleAnonymize
    /\ IdleEnvironment
    /\ IdleDetectTypes
    /\ IdleHistory
    /\ InitQuality
InitSpecTables ==
    /\ phase = "ready"
    /\ IdleCondition
    /\ InitFilter
    /\ IdleJoin
    /\ IdlePivot
    /\ IdleOutliers
    /\ IdleAnonymizeValue
    /\ IdleAnonymize
    /\ IdleEnvironment
    /\ IdleDetectTypes
    /\ IdleHistory
    /\ IdleQuality
InitSpecCleaning ==
    /\ phase = "ready"
    /\ IdleCondition
    /\ InitFilter
    /\ IdlePivot
    /\ IdleOutliers
    /\ IdleAnonymizeValue
    /\ IdleAnonymize
    /\ IdleEnvironment
    /\ IdleDetectTypes
    /\ InitCleaning
    /\ IdleQuality
InitSpecConditionEdit ==
    /\ phase = "ready"
    /\ IdleCondition
    /\ InitConditionEdit
    /\ IdleJoin
    /\ IdlePivot
    /\ IdleOutliers
    /\ IdleAnonymizeValue
    /\ IdleAnonymize
    /\ IdleEnvironment
    /\ IdleDetectTypes
    /\ IdleHistory
    /\ IdleQuality
InitSpecHistoryCap ==
    /\ phase = "ready"
    /\ IdleCondition
    /\ InitFilter
    /\ IdlePivot
    /\ IdleOutliers
    /\ IdleAnonymizeValue
    /\ IdleAnonymize
    /\ IdleEnvironment
    /\ IdleDetectTypes
    /\ InitHistoryCap
    /\ IdleQuality

SpecCondition == InitSpecCondition /\ [][NextCondition]_vars
SpecFilter == InitSpecFilter /\ [][NextFilter]_vars
SpecJoin == InitSpecJoin /\ [][NextJoin]_vars
SpecJoinCall == InitSpecJoinCall /\ [][NextJoinCall]_vars
SpecPivot == InitSpecPivot /\ [][NextPivot]_vars
SpecOutliers == InitSpecOutliers /\ [][NextOutliers]_vars
SpecAnonymizeValue == InitSpecAnonymizeValue /\ [][NextAnonymizeValue]_vars
SpecAnonymize == InitSpecAnonymize /\ [][NextAnonymize]_vars
SpecDetectTypes == InitSpecDetectTypes /\ [][NextDetectTypes]_vars
SpecHistory == InitSpecHistory /\ [][NextHistory]_vars
SpecDateCondition == InitSpecDateCondition /\ [][NextDateCondition]_vars
SpecQuality == InitSpecQuality /\ [][NextQuality]_vars
SpecTables == InitSpecTables /\ [][NextTables]_vars
SpecCleaning == InitSpecCleaning /\ [][NextCleaning]_vars
SpecConditionEdit == InitSpecConditionEdit /\ [][NextConditionEdit]_vars
SpecHistoryCap == InitSpecHistoryCap /\ [][NextHistoryCap]_vars

(***************************************************************************)
(* Properties of the filter evaluator                                      *)
(***************************************************************************)
\* the results of a group's children on a row
ChildResults(r, G, caseSensitive) ==
    {applyFilter(r, G.children[i], caseSensitive) : i \in 1..Len(G.children)}

\* C1: for every row, case flag and group G of the filter tree,
\* applyFilter(row, G) is true when G has no children, whatever G.logic
\* is; otherwise it is the conjunction of applyFilter over G's children
\* when G.logic is AND and their disjunction when it is OR, nested groups
\* included.
C1_GroupSemantics ==
    \A G \in GroupsOf(filterTree), r \in FilterRows, caseSensitive \in BOOLEAN :
        applyFilter(r, G, caseSensitive) =
            IF Len(G.children) = 0 THEN TRUE
            ELSE IF G.logic = "AND" THEN ChildResults(r, G, caseSensitive) = {TRUE}
            ELSE TRUE \in ChildResults(r, G, caseSensitive)

\* a nested OR group, on a row that one of its children accepts and
\* another rejects
C1_Witness ==
    \E G \in GroupsOf(filterTree) \ {filterTree}, r \in FilterRows :
        /\ G.logic = "OR"
        /\ ChildResults(r, G, FALSE) = {TRUE, FALSE}
        /\ applyFilter(r, G, FALSE)

\* blank: null, absent, the empty string or white space only
Blank(v) == v = Null \/ v = Undefined \/ \A i \in 1..Len(v) : v[i] = " "

OtherEmptyOperator(operator) ==
    IF operator = "is empty" THEN "is not empty" ELSE "is empty"

\* C2: on every row, for every field (unset and absent ones included) and
\* either case flag, 'is empty' answers the negation of 'is not empty',
\* and 'is empty' is true exactly when the row's value is blank.
C2_EmptyOperators ==
    (phase = "done" /\ condition.operator \in EmptyOperators) =>
        /\ matched = ~applyFilter(row,
                         [condition EXCEPT !.operator = OtherEmptyOperator(@)],
                         isCaseSensitive)
        /\ matched = ((condition.operator = "is empty") = Blank(Get(row, condition.field)))

\* 'is empty' has accepted a value of white space only
C2_Witness ==
    /\ phase = "done"
    /\ condition.operator = "is empty"
    /\ condition.field = "name"
    /\ Get(row, "name") \in {<<" ">>, <<" ", " ">>}
    /\ matched

\* two strings that differ, and only in the case of their letters
DifferOnlyInCase(a, b) ==
    /\ a # b
    /\ Len(a) = Len(b)
    /\ \A i \in 1..Len(a) : a[i] = b[i] \/ {a[i], b[i]} \in {{"T","t"}, {"O","o"}, {"M","m"}}

NegativeOperators == {"is not", "does not contain", "not in"}

\* the condition is a string operator on the column name, the row value
\* and the comparison value differing only in letter case
CaseOnlyDifference ==
    /\ phase = "done"
    /\ condition.field = "name"
    /\ condition.operator \in StringOperators
    /\ "name" \in DOMAIN row
    /\ row.name # Null
    /\ DifferOnlyInCase(row.name, condition.value)

\* C3: for the string operators, a row value and a comparison value that
\* differ only in letter case are treated as equal with the case flag off
\* (the answer is the one the comparison value itself gets as row value:
\* 'is' true, 'is not' false) and as different with the flag on (the
\* positive operators false, the negative ones true); name 'is' Tom
\* against {name: tom} is true case-insensitively, false case-sensitively.
C3_CaseFlag ==
    CaseOnlyDifference =>
        IF isCaseSensitive
        THEN matched = (condition.operator \in NegativeOperators)
        ELSE /\ matched = applyFilter([name |-> condition.value], condition, FALSE)
             /\ condition.operator = "is" => matched
             /\ condition.operator = "is not" => ~matched

\* name 'is' Tom against {name: tom}, case-sensitively: rejected
C3_Witness ==
    /\ CaseOnlyDifference
    /\ condition.operator = "is"
    /\ condition.value = <<"T","o","m">>
    /\ row.name = <<"t","o","m">>
    /\ isCaseSensitive
    /\ ~matched

\* a non-blank string that is a decimal literal once white space is stripped
ParsesAsFiniteNumber(v) ==
    /\ ~Blank(v)
    /\ \A i \in 1..Len(Trim(v)) : Trim(v)[i] \in {"0", "1"}

\* C4: a numeric operator on a set field answers false whenever the row
\* value or the comparison value is blank or does not parse as a finite
\* number.
C4_NumericBlankIsFalse ==
    ( /\ phase = "done"
      /\ condition.field = "name"
      /\ condition.operator \in NumericOperators
      /\ \/ ~ParsesAsFiniteNumber(Get(row, "name"))
         \/ ~ParsesAsFiniteNumber(condition.value) )
    => ~matched

(***************************************************************************)
(* Properties of the join engine                                           *)
(***************************************************************************)
\* the string form of a join key, lower-cased, null and absent as ''
KeyForm(v) == IF v = Null \/ v = Undefined THEN <<>> ELSE ToLowerCase(v)

\* the pairs (l, r) of a left row and a right row with equal key forms
MatchingPairs(L, R, join) ==
    {p \in (1..Len(L)) \X (1..Len(R)) :
        KeyForm(Get(L[p[1]], join.leftColumn)) = KeyForm(Get(R[p[2]], join.rightColumn))}

\* the combined row of a pair
PairRow(L, R, join, p) == CombineFirst(join.leftTable, L[p[1]], join.rightTable, R[p[2]])

Occurrences(seq, x) == Cardinality({n \in 1..Len(seq) : seq[n] = x})

\* one JoinSpec of the given type is configured over two loaded tables
SingleJoin(joinType) ==
    /\ Len(joins) = 1
    /\ joins[1].joinType = joinType
    /\ Len(tables) >= 2

\* C5: for a single inner JoinSpec over two loaded tables, performJoin
\* returns one combined row for each pair of a left row and a right row
\* whose keys have equal lower-cased string forms (null and absent as the
\* empty string), and no other row.
C5_InnerJoinPairs ==
    SingleJoin("inner") =>
        LET L     == DataOf(tables, joins[1].leftTable)
            R     == DataOf(tables, joins[1].rightTable)
            pairs == MatchingPairs(L, R, joins[1])
        IN  /\ ~joinedData.raised
            /\ Len(joinedData.data) = Cardinality(pairs)
            /\ \A p \in pairs :
                   Occurrences(joinedData.data, PairRow(L, R, joins[1], p)) =
                   Cardinality({q \in pairs : PairRow(L, R, joins[1], q) =
                                              PairRow(L, R, joins[1], p)})

\* the left row shows in a joined row: each of its columns, under the left
\* table's name, with its value
ShowsLeftRow(joined, leftName, leftRow) ==
    \A c \in DOMAIN leftRow : GetKey(joined, <<leftName, c>>) = leftRow[c]

\* C6: the result of a 'left' JoinSpec that performJoin returns has at
\* least as many rows as the left table, every left row showing in one of
\* them.
C6_LeftJoinKeepsLeftRows ==
    (SingleJoin("left") /\ ~joinedData.raised) =>
        LET L == DataOf(tables, joins[1].leftTable)
        IN  /\ Len(joinedData.data) >= Len(L)
            /\ \A i \in 1..Len(L) :
                   \E n \in 1..Len(joinedData.data) :
                       ShowsLeftRow(joinedData.data[n], joins[1].leftTable, L[i])

\* the key forms of a column are pairwise distinct over the rows of a table
DistinctKeys(T, col) ==
    \A i, k \in 1..Len(T) : i # k => KeyForm(Get(T[i], col)) # KeyForm(Get(T[k], col))

\* C7: inner-joining a table T with itself on one column, whose values
\* are all distinct even in their lower-cased string forms, yields |T|
\* combined rows.
C7_SelfJoinCardinality ==
    ( /\ SingleJoin("inner")
      /\ joins[1].leftTable = joins[1].rightTable
      /\ joins[1].leftColumn = joins[1].rightColumn
      /\ DistinctKeys(DataOf(tables, joins[1].leftTable), joins[1].leftColumn) )
    => /\ ~joinedData.raised
       /\ Len(joinedData.data) = Len(DataOf(tables, joins[1].leftTable))

\* C8: when a JoinSpec of the sequence, the first or a later one, names
\* a left or right table that the tables map does not hold, performJoin
\* returns no rows and does not raise.
C8_MissingTableGivesEmpty ==
    ( /\ phase = "done"
      /\ \E i \in 1..Len(joins) :
             ~HasTable(tables, joins[i].leftTable) \/ ~HasTable(tables, joins[i].rightTable) )
    => /\ ~joinedData.raised
       /\ joinedData.data = <<>>

\* the column names of a table: those of any of its rows
ColumnsOf(tbls, name) == UNION {DOMAIN DataOf(tbls, name)[i] : i \in 1..Len(DataOf(tbls, name))}

JoinedTables == UNION {{joins[i].leftTable, joins[i].rightTable} : i \in 1..Len(joins)}

\* C9: while joins are configured and the joined result has rows, every
\* column key of a joined row is alias.column for a loaded table (its
\* alias, or its name when it has none) and one of its columns, and every
\* field name the filter builder offers for a table of the joins is a
\* key of the joined rows.
C9_JoinedKeysUseAliases ==
    (Len(joins) > 0 /\ ~joinedData.raised /\ Len(joinedData.data) > 0) =>
        /\ \A n \in 1..Len(joinedData.data) :
               \A k \in DOMAIN joinedData.data[n] :
                   \E t \in TableNames(tables) :
                       /\ k[1] = AliasOf(tableAliases, t)
                       /\ k[2] \in ColumnsOf(tables, t)
        /\ \A f \in AllColumnsWithTables(tables, tableAliases) :
               f.table \in JoinedTables => f.fullName \in joinedData.columns

(***************************************************************************)
(* Properties of the pivot engine                                          *)
(***************************************************************************)
\* the sum of the numeric values of a column over a table, in thousandths
RECURSIVE ColumnSum(_, _)
ColumnSum(data, field) ==
    IF data = <<>> THEN 0
    ELSE LET v == Get(Head(data), field)
         IN  (IF IsNullish(v) \/ PivotIsNaN(v) THEN 0 ELSE PivotNumber(v))
             + ColumnSum(Tail(data), field)

\* C10: for a non-empty table and the aggregation sum, the grand total
\* is the sum of the valueField over all rows (the number of rows when no
\* valueField is chosen), and it is the same for every choice of rowField
\* and columnField.
C10_GrandTotal ==
    (phase = "done" /\ pivotInput # <<>> /\ pivotConfig.aggFunc = "sum") =>
        /\ pivotResult.totals.grand =
               IF pivotConfig.valueField = "" THEN 1000 * Len(pivotInput)
               ELSE ColumnSum(pivotInput, pivotConfig.valueField)
        /\ \A rf \in PivotRowFields, cf \in PivotColumnFields :
               createPivotData(pivotInput,
                   [pivotConfig EXCEPT !.rowField = rf, !.columnField = cf]).totals.grand
               = pivotResult.totals.grand

\* the call answered what the aggregation sum answers
SilentDefault ==
    pivotResult = createPivotData(pivotInput, [pivotConfig EXCEPT !.aggFunc = "sum"])

\* C11: createPivotData called with an aggFunc name outside the supported
\* set does not silently fall back to a default aggregation.
C11_UnknownAggFuncNotDefaulted ==
    (phase = "done" /\ pivotConfig.aggFunc \notin AggregationNames) => ~SilentDefault

(***************************************************************************)
(* Properties of the data-quality analyzer                                 *)
(***************************************************************************)
\* the rows (counted from 0) whose amount is a non-blank number
NumericRows == {i \in 0..(Len(outlierData) - 1) :
                   LET v == Get(outlierData[i + 1], "amount")
                   IN  ~Blank(v) /\ ~PivotIsNaN(v)}

AmountOf(i) == PivotNumber(outlierData[i + 1].amount)

\* the value at index k (from 0) of the numeric amounts in ascending order
Quantile(k) ==
    CHOOSE x \in {AmountOf(i) : i \in NumericRows} :
        /\ Cardinality({i \in NumericRows : AmountOf(i) < x}) <= k
        /\ k < Cardinality({i \in NumericRows : AmountOf(i) <= x})

\* the rows beyond Q1 - 1.5 IQR or Q3 + 1.5 IQR
ExpectedOutliers ==
    LET n  == Cardinality(NumericRows)
        q1 == Quantile(n \div 4)
        q3 == Quantile((3 * n) \div 4)
    IN  IF n < 4 THEN {}
        ELSE {i \in NumericRows :
                 \/ 2 * AmountOf(i) < 2 * q1 - 3 * (q3 - q1)
                 \/ 2 * AmountOf(i) > 2 * q3 + 3 * (q3 - q1)}

\* C12: over a column with n >= 4 non-blank numeric values, findOutliers
\* flags exactly the rows whose value lies below Q1 - 1.5 IQR or above
\* Q3 + 1.5 IQR, Q1 and Q3 being the sorted values at floor(0.25 n) and
\* floor(0.75 n); with fewer such values it flags nothing; of 1, 2, 3, 4,
\* 5, 100 it flags the row holding 100.
C12_OutliersByIQR ==
    phase = "done" =>
        /\ Range(outlierResult.outlierIndices) = ExpectedOutliers
        /\ outlierResult.outlierCount = Cardinality(ExpectedOutliers)
        /\ outlierData = AsRows(ExampleColumn) => outlierResult.outlierIndices = <<5>>

(***************************************************************************)
(* Properties of the anonymization transformer                             *)
(***************************************************************************)
UpperHex ==
    {"0", "1", "2", "3", "4", "5", "6", "7", "8", "9", "A", "B", "C", "D", "E", "F"}

IsHashToken(token) ==
    /\ Len(token) = 8
    /\ \A i \in 1..Len(token) : token[i] \in UpperHex

RemovedColumns ==
    {c \in DOMAIN anonymizedColumns : anonymizedColumns[c] = "remove"}

HasNoKey(rows, col) == \A i \in 1..Len(rows) : col \notin DOMAIN rows[i]

\* C14: a column whose method is 'remove' is a key of no row of the preview
\* and, once the export has run, of no row of the export.
C14_RemovedColumnDropped ==
    \A col \in RemovedColumns :
        /\ HasNoKey(previewData, col)
        /\ phase = "done" => HasNoKey(anonymizedData, col)

\* an export of rows that carry the column email, with email removed
C14_Witness ==
    /\ phase = "done"
    /\ "email" \in RemovedColumns
    /\ Len(anonData) > 5
    /\ \A i \in 1..Len(anonData) : "email" \in DOMAIN anonData[i]
    /\ Len(anonymizedData) = Len(anonData)
    /\ Len(previewData) = 5

\* C15: for each of the first 5 rows and each column not marked 'remove',
\* the preview shows the value the export writes for that row and column.
C15_PreviewEqualsExport ==
    phase = "done" =>
        /\ Len(previewData) = (IF Len(anonData) < 5 THEN Len(anonData) ELSE 5)
        /\ \A i \in 1..Len(previewData) :
               \A col \in AnonColumnSet \ RemovedColumns :
                   Get(previewData[i], col) = Get(anonymizedData[i], col)

\* an export of more than 5 rows with one column masked and one hashed,
\* whose first row has a value in both
C15_Witness ==
    /\ phase = "done"
    /\ Len(anonData) > 5
    /\ DOMAIN anonymizedColumns = {"email", "name"}
    /\ anonymizedColumns["email"] = "mask"
    /\ anonymizedColumns["name"] = "hash"
    /\ Get(anonData[1], "name") = <<"T", "o", "m">>
    /\ Get(anonymizedData[1], "email") = <<"a", "*", "*", "*", "@", "c">>
    /\ IsHashToken(Get(previewData[1], "name"))

(***************************************************************************)
(* Properties of the type inference                                        *)
(***************************************************************************)
\* the sampled rows whose value for the key is not blank and has a type
\* other than string
TypedRows(data, key) ==
    {i \in 1..Len(data) :
        /\ i <= 10
        /\ ~Blank(Get(data[i], key))
        /\ detectType(Get(data[i], key)) # "string"}

ExpectedType(data, key) ==
    IF TypedRows(data, key) = {} THEN "string"
    ELSE LET first == CHOOSE i \in TypedRows(data, key) :
                          \A j \in TypedRows(data, key) : i <= j
         IN  detectType(Get(data[first], key))

\* C16: detectColumnTypes gives each column the first type other than string
\* that detectType returns among the non-blank values of the first 10 rows,
\* and string if there is none; the rows after the 10th do not count.
C16_FirstSpecificTypeOfSample ==
    phase = "done" =>
        /\ typeData # <<>> => DOMAIN typeResult = DOMAIN typeData[1]
        /\ \A key \in DOMAIN typeResult :
               typeResult[key] = ExpectedType(typeData, key)

\* a column that is text in its first 10 rows and numeric in every later row
\* has been typed string
C16_Witness ==
    /\ phase = "done"
    /\ Len(typeData) = 12
    /\ \A i \in 1..10 : Get(typeData[i], "value") = <<"x">>
    /\ \A i \in 11..12 : Get(typeData[i], "value") = <<"1", "2">>
    /\ typeResult["value"] = "string"

(***************************************************************************)
(* Properties of the filter builder                                        *)
(***************************************************************************)
\* the number of nodes of a tree, counted along its children
RECURSIVE CountNodes(_)
CountNodes(node) ==
    IF HasChildren(node)
    THEN 1 + SumOver(1..Len(node.children),
                     [i \in 1..Len(node.children) |-> CountNodes(node.children[i])])
    ELSE 1

\* a group has a sequence of children and a condition is a leaf
WellFormedNode(node) ==
    IF node.type = "group" THEN HasChildren(node)
    ELSE node.type = "condition" /\ ~HasChildren(node)

\* C17: after any sequence of addCondition, addGroup, removeNode, updateNode
\* and clear-all the filter is a finite tree whose root is a group: every
\* node is a group with children or a condition without, no node occurs
\* twice, there are no more nodes than ids handed out, and removeNode with
\* the id of the root leaves the tree as it is; a cleared tree is an empty
\* root group.
C17_TreeWithGroupRoot ==
    /\ filterTree.type = "group"
    /\ \A n \in Nodes(filterTree) : WellFormedNode(n)
    /\ Cardinality({n.id : n \in Nodes(filterTree)}) = CountNodes(filterTree)
    /\ CountNodes(filterTree) <= nextId
    /\ deleteNode(filterTree, filterTree.id) = filterTree
    /\ filterTree.id = RootLiteralId =>
           \A n \in Nodes(filterTree) \ {filterTree} : n.id # RootLiteralId

\* a cleared tree filled again with a nested group that has children
C17_Witness ==
    /\ filterTree.id = RootLiteralId
    /\ nextId = MaxNodes + 1
    /\ \E g \in GroupsOf(filterTree) \ {filterTree} : Len(g.children) > 0

(***************************************************************************)
(* Properties of the undo history                                          *)
(***************************************************************************)
\* the entry handleUndo reads
CurrentEntry == history[historyIndex + 1]

\* a cleaning operation has just been applied to the active table
CleaningApplied ==
    \E column \in joinedData.columns, operation \in CleaningOperations :
        handleCleaningApply(column, operation)

\* C18: undo and redo are disabled before any cleaning operation has been
\* applied; applying a cleaning operation to a table enables undo and records
\* the rows the table had immediately before it; invoking undo sets the data
\* of that table back to exactly those rows.
C18_UndoRestoresPreviousRows ==
    /\ [](history = <<>> => (~canUndo /\ ~canRedo))
    /\ [][CleaningApplied =>
            /\ canUndo'
            /\ CurrentEntry'.tableName = activeTable
            /\ CurrentEntry'.oldData = DataOf(tables, activeTable)
            /\ DataOf(tables', activeTable) = CurrentEntry'.newData]_vars
    /\ [][handleUndo =>
            (HasTable(tables, CurrentEntry.tableName) =>
                DataOf(tables', CurrentEntry.tableName) = CurrentEntry.oldData)]_vars

\* the only cleaning so far changed the rows of guests and has been undone
C18_Witness ==
    /\ Len(history) = 1
    /\ historyIndex = -1
    /\ canRedo
    /\ history[1].tableName = "guests"
    /\ history[1].oldData # history[1].newData
    /\ HasTable(tables, "guests")
    /\ DataOf(tables, "guests") = GuestsData

(***************************************************************************)
(* Properties of the date conditions                                       *)
(***************************************************************************)
\* the calendar date a value is written with, as a day number, whatever its
\* time of day
CalendarDay(v) ==
    IF IsIsoDate(v)
    THEN LET parts == SplitBy(v, "-", <<>>)
         IN  DaysFromEpoch(DecimalValue(parts[1]), DecimalValue(parts[2]), DecimalValue(parts[3]))
    ELSE LET day == SplitBy(SplitBy(v, " ", <<>>)[1], "/", <<>>)
         IN  DaysFromEpoch(DecimalValue(day[3]), DecimalValue(day[1]), DecimalValue(day[2]))

\* the condition has been evaluated on a row that holds a date
DateEvaluated(operator) ==
    /\ phase = "done"
    /\ condition.operator = operator
    /\ ~DateIsNaN(row.date_submitted)
    /\ row.date_submitted # <<>>

\* C19: 'is before D' keeps the rows whose calendar date is earlier than D,
\* with or without a time of day, and drops the rows whose calendar date is D
\* or later.
C19_IsBeforeByCalendarDate ==
    DateEvaluated("is before") =>
        (matched <=> CalendarDay(row.date_submitted) < CalendarDay(condition.value))

\* C20: 'is on D' keeps exactly the rows whose calendar date is D, with or
\* without a time of day, and 'is not on D' keeps exactly the other rows.
C20_IsOnByCalendarDate ==
    /\ DateEvaluated("is on") =>
           (matched <=> CalendarDay(row.date_submitted) = CalendarDay(condition.value))
    /\ DateEvaluated("is not on") =>
           (matched <=> CalendarDay(row.date_submitted) # CalendarDay(condition.value))

(***************************************************************************)
(* Properties of the pivot cells                                           *)
(***************************************************************************)
\* the rows of a cell
CellRows(data, config, rowVal, colVal) ==
    SelectSeq(data, LAMBDA r :
        /\ LabelOf(r, config.rowField) = rowVal
        /\ config.columnField = "" \/ LabelOf(r, config.columnField) = colVal)

\* the numbers of a cell: the valueField of its rows where it is a
\* non-blank number, in thousandths
NumbersOfCell(data, config, rowVal, colVal) ==
    LET numeric == SelectSeq(CellRows(data, config, rowVal, colVal), LAMBDA r :
                       ~Blank(Get(r, config.valueField))
                       /\ ~PivotIsNaN(Get(r, config.valueField)))
    IN  [i \in 1..Len(numeric) |-> PivotNumber(Get(numeric[i], config.valueField))]

CellAggregations == {"count", "avg", "min", "max", "countDistinct"}

\* C22: in every pivot cell the values of valueField that are blank or no
\* numbers are dropped before the aggregation: count, avg, min, max and
\* countDistinct are those of the non-blank numbers of the cell, so the
\* count of a cell is the number of its rows with a non-blank number.
C22_OnlyNumbersAggregated ==
    (phase = "done" /\ pivotInput # <<>> /\ pivotConfig.valueField # ""
        /\ pivotConfig.aggFunc \in CellAggregations) =>
        \A rowVal \in DOMAIN pivotResult.pivotData :
            \A colVal \in DOMAIN pivotResult.pivotData[rowVal] :
                LET numbers == NumbersOfCell(pivotInput, pivotConfig, rowVal, colVal)
                IN  pivotResult.pivotData[rowVal][colVal] =
                        IF Len(numbers) > 0
                        THEN Aggregate(pivotConfig.aggFunc, numbers) ELSE 0

\* the same on the tables whose valueField holds numbers and empty strings
\* only
C22_OnNumbersAndEmptyStrings ==
    (\A i \in 1..Len(pivotInput) :
         LET v == Get(pivotInput[i], "amount") IN v = <<>> \/ ~PivotIsNaN(v))
        => C22_OnlyNumbersAggregated

(***************************************************************************)
(* Properties of the analyses of an empty table                            *)
(***************************************************************************)
\* the keys of the result of createPivotData on a table with rows, and of
\* its totals
PivotFields  == {"rows", "columns", "pivotData", "totals"}
TotalsFields == {"row", "column", "grand"}

\* the keys of the result of detectDataQuality on a table with rows
QualityFields == {"overall", "columns", "rowDuplicates", "totalRows"}

\* an object or an array that holds nothing
IsEmptyValue(v) == DOMAIN v = {}

\* C21: createPivotData applied to a table with no rows returns a result
\* with the fields rows, columns, pivotData and totals, the totals with
\* the fields row, column and grand, all of them empty or zero.
C21_EmptyPivotWellTyped ==
    (phase = "done" /\ pivotInput = <<>>) =>
        /\ DOMAIN pivotResult = PivotFields
        /\ IsEmptyValue(pivotResult.rows)
        /\ IsEmptyValue(pivotResult.columns)
        /\ IsEmptyValue(pivotResult.pivotData)
        /\ DOMAIN pivotResult.totals = TotalsFields
        /\ IsEmptyValue(pivotResult.totals.row)
        /\ IsEmptyValue(pivotResult.totals.column)
        /\ pivotResult.totals.grand = 0

\* C21, the other half: detectDataQuality applied to a table with no rows
\* returns a result with the fields overall, columns, rowDuplicates and
\* totalRows, holding 0, no column, 0 and 0.
C21_EmptyQualityWellTyped ==
    (phase = "done" /\ qualityData = <<>>) =>
        /\ DOMAIN qualityResult = QualityFields
        /\ qualityResult.overall = 0
        /\ IsEmptyValue(qualityResult.columns)
        /\ qualityResult.rowDuplicates = 0
        /\ qualityResult.totalRows = 0

\* a table with rows gets every field of both results
PivotFieldsOfNonEmpty ==
    (phase = "done" /\ pivotInput # <<>>) =>
        /\ DOMAIN pivotResult = PivotFields
        /\ DOMAIN pivotResult.totals = TotalsFields

QualityFieldsOfNonEmpty ==
    (phase = "done" /\ qualityData # <<>>) => DOMAIN qualityResult = QualityFields

(***************************************************************************)
(* Properties of the data-quality report                                   *)
(***************************************************************************)
\* the distinct values of a column that are not missing
DistinctNonMissing(data, col) ==
    {Get(data[i], col) : i \in 1..Len(data)} \ {v \in {Get(data[i], col) : i \in 1..Len(data)} : IsMissing(v)}

\* C23: for every column of a non-empty table the reported duplicate
\* count is totalRows - missingCount - (the number of distinct non-missing
\* values), a value being missing when it is null, absent, the empty
\* string or whitespace-only, for missingCount and for the distinct count
\* alike.
C23_ColumnDuplicateCount ==
    (phase = "done" /\ qualityData # <<>>) =>
        \A col \in DOMAIN qualityResult.columns :
            /\ qualityResult.columns[col].missing.count =
                   Cardinality({i \in 1..Len(qualityData) : IsMissing(Get(qualityData[i], col))})
            /\ qualityResult.columns[col].duplicates.count =
                   qualityResult.totalRows
                   - qualityResult.columns[col].missing.count
                   - Cardinality(DistinctNonMissing(qualityData, col))

\* the same on the tables without a whitespace-only value
C23_WithoutWhitespaceOnly ==
    (\A i \in 1..Len(qualityData) : Get(qualityData[i], "value") # <<" ">>)
        => C23_ColumnDuplicateCount

(***************************************************************************)
(* Properties of the cleaning panel                                        *)
(***************************************************************************)
\* the step changes, of all the loaded data, only one column of the
\* active table
OnlyOneColumnChanged ==
    LET old == DataOf(tables, activeTable)
        new == DataOf(tables', activeTable)
    IN  /\ TableNames(tables') = TableNames(tables)
        /\ Len(new) = Len(old)
        /\ \A i \in 1..Len(old) : DOMAIN new[i] = DOMAIN old[i]
        /\ \E col \in {ColumnName(k) : k \in joinedData.columns} :
               \A i \in 1..Len(old) :
                   \A c \in DOMAIN old[i] \ {col} : new[i][c] = old[i][c]
        /\ \A name \in TableNames(tables) \ {activeTable} :
               DataOf(tables', name) = DataOf(tables, name)

\* C24: applying a column cleaning through the cleaning panel changes
\* only the selected column of the active table: the table keeps its
\* number of rows and its column names, its other columns keep their
\* values, and every other loaded table is unchanged, with joins active
\* or not.
C24_CleaningChangesOneColumn ==
    [][CleaningApplied => OnlyOneColumnChanged]_vars

\* the same of the cleanings applied while no join is configured
C24_WithoutJoins ==
    [][(CleaningApplied /\ joins = <<>>) => OnlyOneColumnChanged]_vars

(***************************************************************************)
(* Properties of the condition editor                                      *)
(***************************************************************************)
\* the operators the operator selector of a condition lists
OfferedOperators(c) ==
    {OperatorsByType(FieldType(c.field))[i] :
         i \in 1..Len(OperatorsByType(FieldType(c.field)))}

\* C25: after any sequence of UI edits to a condition (add condition,
\* choose field, choose operator, edit value) the operator stored in the
\* condition is one of the operators offered for the inferred type of the
\* condition's current field.
C25_StoredOperatorOffered ==
    \A c \in ConditionsOf(filterTree) : c.operator \in OfferedOperators(c)

(***************************************************************************)
(* Properties of the bounded history                                       *)
(***************************************************************************)
\* the entries a cleaning keeps: those up to the current one, the undone
\* ones behind it discarded
KeptEntries == SubSeq(history, 1, historyIndex + 1)

\* s is t without some of its first elements
IsSuffix(s, t) ==
    Len(s) <= Len(t) /\ s = SubSeq(t, Len(t) - Len(s) + 1, Len(t))

\* C26: after any sequence of cleaning applications, undos and redos the
\* history holds at most 50 entries and -1 <= historyIndex <=
\* history.length - 1; immediately after a cleaning application
\* historyIndex = history.length - 1, so redo is disabled, and the entries
\* that had been undone are discarded.
C26_HistoryBounded ==
    /\ [](/\ Len(history) <= 50
          /\ -1 <= historyIndex
          /\ historyIndex <= Len(history) - 1)
    /\ [][CleaningApplied =>
            /\ historyIndex' = Len(history') - 1
            /\ ~canRedo'
            /\ history'[Len(history')].oldData = DataOf(tables, activeTable)
            /\ IsSuffix(SubSeq(history', 1, Len(history') - 1), KeptEntries)]_vars

\* the history is full and its oldest entry, the one that changed the
\* rows, has been dropped
C26_Witness ==
    /\ Len(history) = MAX_HISTORY
    /\ historyIndex = MAX_HISTORY - 1
    /\ history[1].oldData = history[1].newData

(***************************************************************************)
(* Properties of undo followed by redo                                     *)
(***************************************************************************)
\* the tables after handleUndo and then handleRedo: the undo leaves the
\* history alone and lowers the index by one, so the redo is enabled and
\* reads the entry the undo has read
TablesAfterUndoRedo ==
    TablesAfterRedo(TablesAfterUndo(tables, CurrentEntry), CurrentEntry)

\* C27: in any reachable state where undo is enabled, undo and then
\* immediately redo leaves every loaded table's data (and with it the
\* history and historyIndex) exactly as it was before the undo, also when
\* tables were loaded, reloaded under the same name or removed since the
\* undone operation was applied.
C27_UndoRedoIdentity ==
    canUndo => TablesAfterUndoRedo = tables

(***************************************************************************)
(* Properties of the table session                                         *)
(***************************************************************************)
\* C28: after any sequence of load table, remove table, clear all, select
\* table, add join and remove join, every JoinSpec of the join list names a
\* left table and a right table that are loaded, and activeTable names a
\* loaded table whenever a table is loaded and is null otherwise.
C28_JoinsAndActiveTableLoaded ==
    /\ \A i \in 1..Len(joins) :
           HasTable(tables, joins[i].leftTable) /\ HasTable(tables, joins[i].rightTable)
    /\ IF Len(tables) > 0 THEN HasTable(tables, activeTable) ELSE activeTable = NoTable

\* a join is configured and the table that was active has been removed
C28_Witness ==
    /\ Len(joins) > 0
    /\ Len(tables) = 2
    /\ ~HasTable(tables, "guests")
    /\ "guests" \notin DOMAIN tableAliases
    /\ activeTable = "attendance"

\* the aliases handleDataLoaded has assigned to the loaded tables
LoadedAliases == {tableAliases[name] : name \in TableNames(tables)}

\* C29: after any sequence of table loads and table removals, no two
\* loaded tables have the same automatically assigned alias in
\* tableAliases.
C29_AliasesDistinct ==
    \A a, b \in TableNames(tables) :
        (a # b /\ a \in DOMAIN tableAliases /\ b \in DOMAIN tableAliases)
            => tableAliases[a] # tableAliases[b]

(***************************************************************************)
(* Properties of the condition without a field                             *)
(***************************************************************************)
\* an AND group that holds the condition under evaluation
GroupOfCondition == [NewGroup(1) EXCEPT !.children = <<condition>>]

\* the group after addCondition(1): a fresh condition appended to it
GroupWithFresh == insertNode(GroupOfCondition, 1, NewCondition(2))

\* C30: a condition whose field is unset, as addCondition creates it, is
\* true of every row under its default operator and under every operator
\* other than 'is empty' and 'is not empty'; hence appending a fresh
\* condition to an AND group does not change which rows the group matches.
C30_UnsetFieldMatchesEveryRow ==
    phase = "done" =>
        /\ (condition.field = "" /\ condition.operator \notin EmptyOperators) => matched
        /\ \A op \in (Operators \cup DateOperators) \ EmptyOperators :
               applyFilter(row, [condition EXCEPT !.field = "", !.operator = op],
                           isCaseSensitive)
        /\ applyFilter(row, NewCondition(2), isCaseSensitive)
        /\ applyFilter(row, GroupWithFresh, isCaseSensitive)
               = applyFilter(row, GroupOfCondition, isCaseSensitive)
        /\ applyFilter(row, insertNode(NewGroup(1), 1, NewCondition(2)), isCaseSensitive)
               = applyFilter(row, NewGroup(1), isCaseSensitive)

\* a condition without a field, under the default operator 'is' and with
\* a value that no cell of the row equals, has been evaluated
C30_Witness ==
    /\ phase = "done"
    /\ condition.field = ""
    /\ condition.operator = "is"
    /\ condition.value = <<"t">>
    /\ row = [name |-> <<"T">>]
    /\ matched

\* the step appends a fresh condition to a group whose logic is AND
FreshAppendedTo(g) ==
    /\ g.logic = "AND"
    /\ nextId <= MaxNodes
    /\ filterTree' = insertNode(filterTree, g.id, NewCondition(nextId))

\* the node of a tree that has the id
NodeOf(tree, id) == CHOOSE n \in Nodes(tree) : n.id = id

\* C30 in the filter builder: the step addCondition on an AND group
\* leaves the rows the group matches as they were.
C30_AppendKeepsMatches ==
    [][\A g \in GroupsOf(filterTree) :
           FreshAppendedTo(g) =>
               \A r \in FilterRows, caseSensitive \in BOOLEAN :
                   applyFilter(r, NodeOf(filterTree', g.id), caseSensitive)
                       = applyFilter(r, g, caseSensitive)]_vars

====
